---- MODULE Spec2Model ----
(***************************************************************************)
(* A model of the AF-Serializer codec for LabVIEW "flattened data":        *)
(* the Construct based scalar, array and object codecs, the @lvclass       *)
(* decorator with its class registry, and lvflatten / lvunflatten.         *)
(*                                                                         *)
(* Bytes are integers 0..255 and byte strings are sequences of them.       *)
(* Text is a sequence of code points.  A stream is a pair (bytes, pos)     *)
(* where pos is the number of bytes already consumed.                      *)
(***************************************************************************)
EXTENDS Integers, Sequences, FiniteSets, TLC

VARIABLES
    registry,   \* _LVCLASS_REGISTRY: qualified name -> class
    defined,    \* the classes whose @lvclass decorator has run
    arg,        \* the argument of the most recent encoding call
    wire,       \* the bytes most recently produced, held by the caller
    ret         \* what the most recent call returned

vars == <<registry, defined, arg, wire, ret>>

(***************************************************************************)
(* Python values.  Every value is a record of one shape, so that any two   *)
(* values can be compared: k is the type, v the number of an int or bool,  *)
(* s the code points of a str, items the elements of a list.               *)
(***************************************************************************)
PyInt(n) == [k |-> "int", v |-> n, s |-> <<>>, items |-> <<>>]

PyBool(b) == [k |-> "bool", v |-> IF b THEN 1 ELSE 0, s |-> <<>>, items |-> <<>>]

PyStr(cs) == [k |-> "str", v |-> 0, s |-> cs, items |-> <<>>]

PyList(xs) == [k |-> "list", v |-> 0, s |-> <<>>, items |-> xs]

PyNone == [k |-> "None", v |-> 0, s |-> <<>>, items |-> <<>>]

\* a float is the number of halves it holds: v = 5 is 2.5
PyFloat(halves) == [k |-> "float", v |-> halves, s |-> <<>>, items |-> <<>>]

\* isinstance(x, list)
IsList(x) == x.k = "list"

\* bool is a subclass of int in Python
IsIntLike(x) == x.k \in {"int", "bool"}

\* Python truthiness of a value: `if not obj`
Truthy(x) ==
    CASE x.k = "list" -> Len(x.items) > 0
      [] x.k = "str" -> Len(x.s) > 0
      [] x.k \in {"int", "bool", "float"} -> x.v # 0
      [] OTHER -> FALSE

(***************************************************************************)
(* Sequences and streams.                                                  *)
(***************************************************************************)
Min(a, b) == IF a < b THEN a ELSE b

\* stream.read(n) of io.BytesIO: the next n bytes, fewer at the end of the
\* stream, never an error.
StreamRead(bytes, pos, n) == SubSeq(bytes, pos + 1, Min(pos + n, Len(bytes)))

\* the position after stream.read(n)
StreamAdvance(bytes, pos, n) == Min(pos + n, Len(bytes))

RECURSIVE Concat(_)
\* b''.join(seqs)
Concat(seqs) ==
    IF seqs = <<>> THEN <<>>
    ELSE IF Len(seqs) = 1 THEN seqs[1]
    ELSE Concat(SubSeq(seqs, 1, Len(seqs) \div 2))
         \o Concat(SubSeq(seqs, Len(seqs) \div 2 + 1, Len(seqs)))

RECURSIVE Zeros(_)
\* b'\x00' * n
Zeros(n) == IF n <= 0 THEN <<>> ELSE <<0>> \o Zeros(n - 1)

(***************************************************************************)
(* Python integers are unbounded.  The only large numbers of the model are *)
(* u32 words read from element bytes as candidate dimensions and their     *)
(* products; they are only ever compared with the number of bytes left in  *)
(* a stream.  They saturate at Huge, which exceeds every stream length of  *)
(* the model, so each comparison has the outcome it has in Python.         *)
(***************************************************************************)
Huge == 16777216

SatMul(a, b) ==
    IF a = 0 \/ b = 0 THEN 0
    ELSE IF a >= Huge \/ b >= Huge \/ a > Huge \div b THEN Huge
    ELSE a * b

SatAdd(a, b) == IF a + b >= Huge THEN Huge ELSE a + b

(***************************************************************************)
(* Fixed-width big-endian integers (construct's IntNsb / IntNub).          *)
(***************************************************************************)
IntTags == {"LVI8", "LVU8", "LVI16", "LVU16", "LVI32"}

IntSize(tag) ==
    CASE tag \in {"LVI8", "LVU8"} -> 1
      [] tag \in {"LVI16", "LVU16"} -> 2
      [] tag = "LVI32" -> 4

IntSigned(tag) == tag \in {"LVI8", "LVI16", "LVI32"}

\* the values struct.pack accepts for the format
IntFits(tag, n) ==
    CASE tag = "LVI8" -> n >= -128 /\ n <= 127
      [] tag = "LVU8" -> n >= 0 /\ n <= 255
      [] tag = "LVI16" -> n >= -32768 /\ n <= 32767
      [] tag = "LVU16" -> n >= 0 /\ n <= 65535
      [] tag = "LVI32" -> n >= -2147483647 - 1 /\ n <= 2147483647

RECURSIVE BigEndian(_, _)
\* the size low-order bytes of n >= 0, most significant first
BigEndian(n, size) ==
    IF size = 0 THEN <<>> ELSE BigEndian(n \div 256, size - 1) \o <<n % 256>>

\* two's complement: the bytes of a negative n are the complemented bytes
\* of -(n + 1)
IntBytes(n, size) ==
    IF n >= 0 THEN BigEndian(n, size)
    ELSE [i \in 1..size |-> 255 - BigEndian(-(n + 1), size)[i]]

RECURSIVE BytesValue(_)
\* the unsigned value of a big-endian byte string below 2^31
BytesValue(bs) ==
    IF bs = <<>> THEN 0
    ELSE BytesValue(SubSeq(bs, 1, Len(bs) - 1)) * 256 + bs[Len(bs)]

RECURSIVE SatValue(_)
\* the unsigned value of a big-endian byte string, saturating at Huge
SatValue(bs) ==
    IF bs = <<>> THEN 0
    ELSE SatAdd(SatMul(SatValue(SubSeq(bs, 1, Len(bs) - 1)), 256), bs[Len(bs)])

\* the signed value of a big-endian byte string of at most 4 bytes
SignedValue(bs) ==
    IF bs[1] >= 128
    THEN -(BytesValue([i \in 1..Len(bs) |-> 255 - bs[i]])) - 1
    ELSE BytesValue(bs)

\* Int32ub.build(n), Int16ub.build(n), Int8ub.build(n) for n in range
U32(n) == BigEndian(n, 4)

U16(n) == BigEndian(n, 2)

\* construct raises when the value does not fit the field
U8Fits(n) == n >= 0 /\ n <= 255

\* Int32ub.parse_stream(stream): StreamError when fewer than 4 bytes are left;
\* the word is a length, a count or a dimension and saturates at Huge
ParseU32(bytes, pos) ==
    IF pos + 4 > Len(bytes) THEN [ok |-> FALSE, val |-> 0, pos |-> Len(bytes)]
    ELSE [ok |-> TRUE, val |-> SatValue(SubSeq(bytes, pos + 1, pos + 4)), pos |-> pos + 4]

(***************************************************************************)
(* Text.  LVString of basic_types.py is PascalString(Int32ub, "utf-8");    *)
(* the class names of an object go through _get_encoding(), latin-1 off    *)
(* Windows.                                                                *)
(***************************************************************************)
\* the code points str.encode("utf-8") accepts: no surrogates
Utf8Ok(cs) ==
    \A i \in 1..Len(cs) :
        cs[i] >= 0 /\ cs[i] <= 1114111 /\ ~(cs[i] >= 55296 /\ cs[i] <= 57343)

\* the UTF-8 bytes of one code point
Utf8Char(c) ==
    IF c < 128 THEN <<c>>
    ELSE IF c < 2048 THEN <<192 + (c \div 64), 128 + (c % 64)>>
    ELSE IF c < 65536
    THEN <<224 + (c \div 4096), 128 + ((c \div 64) % 64), 128 + (c % 64)>>
    ELSE <<240 + (c \div 262144), 128 + ((c \div 4096) % 64),
           128 + ((c \div 64) % 64), 128 + (c % 64)>>

\* str.encode("utf-8")
Utf8Encode(cs) == Concat([i \in 1..Len(cs) |-> Utf8Char(cs[i])])

\* a continuation byte at index i of bs
Utf8Cont(bs, i) == i <= Len(bs) /\ bs[i] >= 128 /\ bs[i] <= 191

\* the number of bytes of the well-formed sequence bs starts with, 0 when
\* it starts with none (overlong forms, surrogates and values above
\* U+10FFFF are rejected)
Utf8Width(bs) ==
    IF bs[1] < 128 THEN 1
    ELSE IF bs[1] >= 194 /\ bs[1] <= 223
    THEN IF Utf8Cont(bs, 2) THEN 2 ELSE 0
    ELSE IF bs[1] >= 224 /\ bs[1] <= 239
    THEN IF /\ Utf8Cont(bs, 2) /\ Utf8Cont(bs, 3)
            /\ (bs[1] = 224 => bs[2] >= 160)
            /\ (bs[1] = 237 => bs[2] <= 159)
         THEN 3 ELSE 0
    ELSE IF bs[1] >= 240 /\ bs[1] <= 244
    THEN IF /\ Utf8Cont(bs, 2) /\ Utf8Cont(bs, 3) /\ Utf8Cont(bs, 4)
            /\ (bs[1] = 240 => bs[2] >= 144)
            /\ (bs[1] = 244 => bs[2] <= 143)
         THEN 4 ELSE 0
    ELSE 0

\* the code point of the well-formed sequence of n bytes bs starts with
Utf8Point(bs, n) ==
    CASE n = 1 -> bs[1]
      [] n = 2 -> (bs[1] - 192) * 64 + (bs[2] - 128)
      [] n = 3 -> (bs[1] - 224) * 4096 + (bs[2] - 128) * 64 + (bs[3] - 128)
      [] n = 4 -> (bs[1] - 240) * 262144 + (bs[2] - 128) * 4096
                  + (bs[3] - 128) * 64 + (bs[4] - 128)

RECURSIVE Utf8Decode(_)
\* bytes.decode("utf-8"): [ok, text]; ok is FALSE for UnicodeDecodeError
Utf8Decode(bs) ==
    IF bs = <<>> THEN [ok |-> TRUE, text |-> <<>>]
    ELSE LET Cons(c, r) == [ok |-> r.ok, text |-> IF r.ok THEN <<c>> \o r.text ELSE <<>>]
             Wide(n) == IF n = 0 THEN [ok |-> FALSE, text |-> <<>>]
                        ELSE Cons(Utf8Point(bs, n), Utf8Decode(SubSeq(bs, n + 1, Len(bs))))
         IN  Wide(Utf8Width(bs))

\* str.encode("latin-1") succeeds when every code point is below 256
Latin1Ok(cs) == \A i \in 1..Len(cs) : cs[i] >= 0 /\ cs[i] <= 255

\* str.encode("latin-1") and bytes.decode("latin-1"): one byte per code point
Latin1Encode(cs) == [i \in 1..Len(cs) |-> cs[i]]

Latin1Decode(bs) == [i \in 1..Len(bs) |-> bs[i]]

(***************************************************************************)
(* Type hints.  A hint is [kind, elem]: kind names a Construct             *)
(* (LVI32, LVString, LVBoolean, LVArray ...) or a plain Python type        *)
(* (str, bool, int, float); elem is the element Construct of an LVArray.   *)
(***************************************************************************)
Hint(kind) == [kind |-> kind, elem |-> ""]

ArrayOf(elem) == [kind |-> "LVArray", elem |-> elem]

\* hasattr(attr_type, 'build') / hasattr(attr_type, 'parse_stream')
IsConstruct(h) == h.kind \in IntTags \cup {"LVString", "LVBoolean", "LVArray"}

\* element_type.sizeof(); -1 stands for the SizeofError of a variable size
Sizeof(kind) ==
    IF kind \in IntTags THEN IntSize(kind)
    ELSE IF kind = "LVBoolean" THEN 1
    ELSE -1

(***************************************************************************)
(* Scalar Constructs: build gives [ok, bytes], parse_stream gives          *)
(* [ok, val, pos]; ok is FALSE when the call raises.                       *)
(***************************************************************************)
BuildFail == [ok |-> FALSE, bytes |-> <<>>]

ParseFail(pos) == [ok |-> FALSE, val |-> PyNone, pos |-> pos]

RECURSIVE BitLength(_)
\* int.bit_length()
BitLength(n) == IF n = 0 THEN 0 ELSE 1 + BitLength(n \div 2)

RECURSIVE Pow2(_)
Pow2(n) == IF n = 0 THEN 1 ELSE 2 * Pow2(n - 1)

\* struct.pack('>d', x) for x = halves / 2 with |halves| < 2^21: sign,
\* 11 bits of biased exponent and the fraction, whose low 32 bits are zero
Float64Bytes(halves) ==
    IF halves = 0 THEN Zeros(8)
    ELSE LET m == IF halves < 0 THEN -halves ELSE halves
             top == BitLength(m) - 1
             biased == top - 1 + 1023
             fraction == (m - Pow2(top)) * Pow2(20 - top)
         IN  <<(IF halves < 0 THEN 128 ELSE 0) + biased \div 16,
               (biased % 16) * 16 + fraction \div 65536,
               (fraction \div 256) % 256,
               fraction % 256, 0, 0, 0, 0>>

\* the float whose 8 bytes are b: the halves it holds, or the bytes
\* themselves (in s) for a float that is not a number of halves below 2^21
Float64Value(b) ==
    IF b = Zeros(8) THEN PyFloat(0)
    ELSE LET biased == (b[1] % 128) * 16 + b[2] \div 16
             top == biased - 1022
             fraction == (b[2] % 16) * 65536 + b[3] * 256 + b[4]
             Halves(m) == PyFloat(IF b[1] >= 128 THEN -m ELSE m)
         IN  IF /\ top \in 0..20
                /\ SubSeq(b, 5, 8) = Zeros(4)
                /\ fraction % Pow2(20 - top) = 0
             THEN Halves(Pow2(top) + fraction \div Pow2(20 - top))
             ELSE [k |-> "float", v |-> 0, s |-> b, items |-> <<>>]

\* Float64b.build: struct.pack('>d', x) takes a float, an int or a bool
DoubleBuild(x) ==
    IF x.k = "float" /\ x.s = <<>> THEN [ok |-> TRUE, bytes |-> Float64Bytes(x.v)]
    ELSE IF x.k = "float" THEN [ok |-> TRUE, bytes |-> x.s]
    ELSE IF IsIntLike(x) THEN [ok |-> TRUE, bytes |-> Float64Bytes(2 * x.v)]
    ELSE BuildFail

\* Float64b.parse_stream
DoubleParse(bytes, pos) ==
    IF pos + 8 > Len(bytes) THEN ParseFail(Len(bytes))
    ELSE [ok |-> TRUE, val |-> Float64Value(SubSeq(bytes, pos + 1, pos + 8)), pos |-> pos + 8]

\* IntNsb.build / IntNub.build
IntBuild(tag, x) ==
    IF IsIntLike(x) /\ IntFits(tag, x.v)
    THEN [ok |-> TRUE, bytes |-> IntBytes(x.v, IntSize(tag))]
    ELSE BuildFail

\* IntNsb.parse_stream / IntNub.parse_stream
IntParse(tag, bytes, pos) ==
    IF pos + IntSize(tag) > Len(bytes) THEN ParseFail(Len(bytes))
    ELSE LET bs == SubSeq(bytes, pos + 1, pos + IntSize(tag))
         IN  [ok |-> TRUE,
              val |-> PyInt(IF IntSigned(tag) THEN SignedValue(bs) ELSE BytesValue(bs)),
              pos |-> pos + IntSize(tag)]

\* BooleanAdapter._encode over Byte
BooleanBuild(x) ==
    IF x.k \in {"int", "bool", "float", "str", "list"}
    THEN [ok |-> TRUE, bytes |-> <<IF Truthy(x) THEN 1 ELSE 0>>]
    ELSE BuildFail

\* BooleanAdapter._decode over Byte: ValidationError unless 0 or 1
BooleanParse(bytes, pos) ==
    IF pos + 1 > Len(bytes) THEN ParseFail(pos)
    ELSE IF bytes[pos + 1] \notin {0, 1} THEN ParseFail(pos + 1)
    ELSE [ok |-> TRUE, val |-> PyBool(bytes[pos + 1] = 1), pos |-> pos + 1]

\* the build as it would be if the prefix counted characters
StringBuildCharCount(x) ==
    IF x.k = "str" /\ Utf8Ok(x.s)
    THEN [ok |-> TRUE, bytes |-> U32(Len(x.s)) \o Utf8Encode(x.s)]
    ELSE BuildFail

\* LVString.build: u32 byte count, then the encoded bytes
StringBuild(x) ==
    IF x.k = "str" /\ Utf8Ok(x.s)
    THEN LET raw == Utf8Encode(x.s)
         IN  [ok |-> TRUE, bytes |-> U32(Len(raw)) \o raw]
    ELSE BuildFail

\* LVString.parse_stream
StringParse(bytes, pos) ==
    LET n == ParseU32(bytes, pos)
    IN  IF ~n.ok THEN ParseFail(pos)
        ELSE IF n.pos + n.val > Len(bytes) THEN ParseFail(n.pos)
        ELSE LET d == Utf8Decode(SubSeq(bytes, n.pos + 1, n.pos + n.val))
             IN  IF d.ok THEN [ok |-> TRUE, val |-> PyStr(d.text), pos |-> n.pos + n.val]
                 ELSE ParseFail(n.pos + n.val)

\* build of a Construct other than an array
ScalarBuild(kind, x) ==
    CASE kind \in IntTags -> IntBuild(kind, x)
      [] kind = "LVBoolean" -> BooleanBuild(x)
      [] kind = "LVString" -> StringBuild(x)
      [] OTHER -> BuildFail

\* parse_stream of a Construct other than an array
ScalarParse(kind, bytes, pos) ==
    CASE kind \in IntTags -> IntParse(kind, bytes, pos)
      [] kind = "LVBoolean" -> BooleanParse(bytes, pos)
      [] kind = "LVString" -> StringParse(bytes, pos)
      [] OTHER -> ParseFail(pos)

(***************************************************************************)
(* ArrayAdapter: LVArray(element_type).  The wire form is one u32 per      *)
(* dimension followed by the elements in row-major order; parsing infers   *)
(* the number of dimensions from the bytes left in the stream.             *)
(***************************************************************************)
MAX_DIMENSIONS == 10

RECURSIVE _get_dimensions(_)
_get_dimensions(obj) ==
    IF ~IsList(obj) THEN <<>>
    ELSE <<Len(obj.items)>>
         \o (IF Len(obj.items) > 0 THEN _get_dimensions(obj.items[1]) ELSE <<>>)

RECURSIVE _flatten_nested_list(_)
_flatten_nested_list(obj) ==
    IF ~IsList(obj) THEN <<obj>>
    ELSE Concat([i \in 1..Len(obj.items) |->
                    IF IsList(obj.items[i]) THEN _flatten_nested_list(obj.items[i])
                    ELSE <<obj.items[i]>>])

\* math.prod(dims), saturating
RECURSIVE Prod(_)
Prod(dims) == IF dims = <<>> THEN 1 ELSE SatMul(Head(dims), Prod(Tail(dims)))

RECURSIVE _reshape_to_nested_list(_, _)
_reshape_to_nested_list(flat, dims) ==
    IF Len(dims) = 0 THEN PyList(flat)
    ELSE IF Len(dims) = 1 THEN PyList(SubSeq(flat, 1, Min(dims[1], Len(flat))))
    ELSE LET sub_size == Prod(Tail(dims))
         IN  PyList([i \in 1..dims[1] |->
                 _reshape_to_nested_list(
                     SubSeq(flat, (i - 1) * sub_size + 1, Min(i * sub_size, Len(flat))),
                     Tail(dims))])

\* for element in flat_elements: stream.write(self.element_type.build(element))
BuildElements(elem, flat) ==
    LET Written(built) ==
            IF \A i \in 1..Len(built) : built[i].ok
            THEN [ok |-> TRUE, bytes |-> Concat([i \in 1..Len(built) |-> built[i].bytes])]
            ELSE BuildFail
    IN  Written([i \in 1..Len(flat) |-> ScalarBuild(elem, flat[i])])

\* _build as it would be if it wrote the number of dimensions first
ArrayBuildNumDims(elem, obj) ==
    IF ~Truthy(obj) THEN [ok |-> TRUE, bytes |-> U32(0)]
    ELSE LET dims == _get_dimensions(obj)
             body == BuildElements(elem, _flatten_nested_list(obj))
             head == IF Len(dims) > 1 THEN U32(Len(dims)) ELSE <<>>
         IN  IF body.ok
             THEN [ok |-> TRUE,
                   bytes |-> head \o Concat([i \in 1..Len(dims) |-> U32(dims[i])])
                             \o body.bytes]
             ELSE BuildFail

\* ArrayAdapter._build
ArrayBuild(elem, obj) ==
    IF ~Truthy(obj) THEN [ok |-> TRUE, bytes |-> U32(0)]
    ELSE LET dims == _get_dimensions(obj)
             body == BuildElements(elem, _flatten_nested_list(obj))
         IN  IF body.ok
             THEN [ok |-> TRUE,
                   bytes |-> Concat([i \in 1..Len(dims) |-> U32(dims[i])]) \o body.bytes]
             ELSE BuildFail

RECURSIVE ParseElements(_, _, _, _)
\* for _ in range(n): elements.append(self.element_type.parse_stream(stream));
\* [ok, vals, pos], the first failing element raising out of the loop
ParseElements(elem, bytes, pos, n) ==
    IF n = 0 THEN [ok |-> TRUE, vals |-> <<>>, pos |-> pos]
    ELSE IF n = 1
    THEN LET One(h) == [ok |-> h.ok, vals |-> IF h.ok THEN <<h.val>> ELSE <<>>,
                        pos |-> h.pos]
         IN  One(ScalarParse(elem, bytes, pos))
    ELSE \* the first n \div 2 iterations of the loop, then the others
         LET Rest(a, b) == [ok |-> b.ok, vals |-> a.vals \o b.vals, pos |-> b.pos]
             After(a) == IF ~a.ok THEN a
                         ELSE Rest(a, ParseElements(elem, bytes, a.pos, n - n \div 2))
         IN  After(ParseElements(elem, bytes, pos, n \div 2))

\* the search as it would be if it never read a second dimension
DimensionSearchOneDim(bytes, start_pos, remaining_bytes, element_size, dims, pos) ==
    [dims |-> dims,
     found |-> Len(dims) * 4 + SatMul(dims[1], element_size) = remaining_bytes,
     pos |-> pos]

RECURSIVE DimensionSearch(_, _, _, _, _, _)
\* the `while len(dims) < self.MAX_DIMENSIONS` loop of _parse:
\* [dims, found, pos] when the loop is left
DimensionSearch(bytes, start_pos, remaining_bytes, element_size, dims, pos) ==
    IF ~(Len(dims) < MAX_DIMENSIONS) THEN [dims |-> dims, found |-> FALSE, pos |-> pos]
    ELSE LET expected_total == SatAdd(Len(dims) * 4, SatMul(Prod(dims), element_size))
         IN  IF expected_total = remaining_bytes
             THEN [dims |-> dims, found |-> TRUE, pos |-> pos]
             ELSE IF expected_total > remaining_bytes
             THEN [dims |-> IF Len(dims) > 1 THEN SubSeq(dims, 1, Len(dims) - 1) ELSE dims,
                   found |-> FALSE, pos |-> pos]
             ELSE IF pos - start_pos + 4 > remaining_bytes
             THEN [dims |-> dims, found |-> FALSE, pos |-> pos]
             ELSE LET next_dim == ParseU32(bytes, pos)
                  IN  IF next_dim.val = 0
                      THEN [dims |-> dims, found |-> FALSE, pos |-> next_dim.pos]
                      ELSE DimensionSearch(bytes, start_pos, remaining_bytes, element_size,
                                           Append(dims, next_dim.val), next_dim.pos)

\* the tail of _parse: read the elements and reshape them
ParseShaped(elem, bytes, pos, dims) ==
    LET Shaped(es) ==
            IF ~es.ok THEN ParseFail(es.pos)
            ELSE [ok |-> TRUE,
                  val |-> IF Len(dims) = 1 THEN PyList(es.vals)
                          ELSE _reshape_to_nested_list(es.vals, dims),
                  pos |-> es.pos]
    IN  Shaped(ParseElements(elem, bytes, pos, Prod(dims)))

\* _parse as it would be without the seek back to just after the first
\* dimension
ArrayParseNoRewind(elem, bytes, pos) ==
    LET remaining_bytes == Len(bytes) - pos
        \* the stream position and the dimensions the elements are read with:
        \* those found, or else the first dimension alone after a seek back
        Shape(first_dim, found) ==
            IF found.found THEN [pos |-> found.pos, dims |-> found.dims]
            ELSE [pos |-> found.pos, dims |-> <<first_dim.val>>]
        Sized(shape) == ParseShaped(elem, bytes, shape.pos, shape.dims)
        Fixed(first_dim) ==
            IF first_dim.val = 0
            THEN [ok |-> TRUE, val |-> PyList(<<>>), pos |-> first_dim.pos]
            ELSE Sized(Shape(first_dim,
                             DimensionSearch(bytes, pos, remaining_bytes, Sizeof(elem),
                                             <<first_dim.val>>, first_dim.pos)))
        \* variable-size elements: one u32 count, then the elements
        Counted(count) ==
            IF ~count.ok THEN ParseFail(pos)
            ELSE IF count.val = 0 THEN [ok |-> TRUE, val |-> PyList(<<>>), pos |-> count.pos]
            ELSE Sized([pos |-> count.pos, dims |-> <<count.val>>])
    IN  IF Sizeof(elem) = -1 THEN Counted(ParseU32(bytes, pos))
        ELSE IF remaining_bytes < 4 THEN [ok |-> TRUE, val |-> PyList(<<>>), pos |-> pos]
        ELSE Fixed(ParseU32(bytes, pos))

\* ArrayAdapter._parse on the stream (bytes, pos)
ArrayParse(elem, bytes, pos) ==
    LET remaining_bytes == Len(bytes) - pos
        \* the stream position and the dimensions the elements are read with:
        \* those found, or else the first dimension alone after a seek back
        Shape(first_dim, found) ==
            IF found.found THEN [pos |-> found.pos, dims |-> found.dims]
            ELSE [pos |-> pos + 4, dims |-> <<first_dim.val>>]
        Sized(shape) == ParseShaped(elem, bytes, shape.pos, shape.dims)
        Fixed(first_dim) ==
            IF first_dim.val = 0
            THEN [ok |-> TRUE, val |-> PyList(<<>>), pos |-> first_dim.pos]
            ELSE Sized(Shape(first_dim,
                             DimensionSearch(bytes, pos, remaining_bytes, Sizeof(elem),
                                             <<first_dim.val>>, first_dim.pos)))
        \* variable-size elements: one u32 count, then the elements
        Counted(count) ==
            IF ~count.ok THEN ParseFail(pos)
            ELSE IF count.val = 0 THEN [ok |-> TRUE, val |-> PyList(<<>>), pos |-> count.pos]
            ELSE Sized([pos |-> count.pos, dims |-> <<count.val>>])
    IN  IF Sizeof(elem) = -1 THEN Counted(ParseU32(bytes, pos))
        ELSE IF remaining_bytes < 4 THEN [ok |-> TRUE, val |-> PyList(<<>>), pos |-> pos]
        ELSE Fixed(ParseU32(bytes, pos))

\* attr_type.build(value) of any Construct hint
ConstructBuild(h, x) ==
    IF h.kind = "LVArray" THEN ArrayBuild(h.elem, x) ELSE ScalarBuild(h.kind, x)

\* attr_type.parse_stream(stream) of any Construct hint
ConstructParse(h, bytes, pos) ==
    IF h.kind = "LVArray" THEN ArrayParse(h.elem, bytes, pos)
    ELSE ScalarParse(h.kind, bytes, pos)

(***************************************************************************)
(* The classes of the program: Python class statements under @lvclass.     *)
(* Each has its base class, the decorator's arguments and its own          *)
(* __annotations__ in declaration order.  Names are code points.           *)
(***************************************************************************)
DotLvlib == <<46, 108, 118, 108, 105, 98>>              \* ".lvlib"

DotLvclass == <<46, 108, 118, 99, 108, 97, 115, 115>>   \* ".lvclass"

Colon == <<58>>                                          \* ":"

NoClass == "None"

Field(name, type) == [name |-> name, type |-> type]

ClassIds == {"Message", "SerializableMsg", "EchoMsg", "Test", "Child", "Sample", "EchoAlt"}

ClassDef(c) ==
    CASE c = "Message" ->          \* @lvclass(library="AF", class_name="Msg")
            [base |-> NoClass, library |-> <<65, 70>>, class_name |-> <<77, 115, 103>>,
             version |-> <<1, 0, 0, 0>>, hints |-> <<>>]
      [] c = "SerializableMsg" ->  \* @lvclass(library="SM", class_name="SMsg", version=(1,0,0,7))
            [base |-> "Message", library |-> <<83, 77>>, class_name |-> <<83, 77, 115, 103>>,
             version |-> <<1, 0, 0, 7>>, hints |-> <<>>]
      [] c = "EchoMsg" ->          \* @lvclass(library="Cmd", class_name="Echo")
            [base |-> "SerializableMsg", library |-> <<67, 109, 100>>,
             class_name |-> <<69, 99, 104, 111>>, version |-> <<1, 0, 0, 1>>,
             hints |-> <<Field("message", Hint("str")), Field("code", Hint("LVU16"))>>]
      [] c = "Test" ->             \* @lvclass(class_name="Test", version=(1,0,0,6))
            [base |-> NoClass, library |-> <<>>, class_name |-> <<84, 101, 115, 116>>,
             version |-> <<1, 0, 0, 6>>, hints |-> <<Field("id", Hint("int"))>>]
      [] c = "Child" ->            \* @lvclass(class_name="Child", version=(1,0,0,4))
            [base |-> "Test", library |-> <<>>, class_name |-> <<67, 104, 105, 108, 100>>,
             version |-> <<1, 0, 0, 4>>,
             hints |-> <<Field("boolean", Hint("LVBoolean")),
                         Field("number_array", ArrayOf("LVI32"))>>]
      [] c = "Sample" ->           \* @lvclass(class_name="Sam", version=(2,0,0,3))
            [base |-> NoClass, library |-> <<>>, class_name |-> <<83, 97, 109>>,
             version |-> <<2, 0, 0, 3>>,
             hints |-> <<Field("samples", ArrayOf("LVI32")), Field("count", Hint("LVI32"))>>]
      [] c = "EchoAlt" ->          \* @lvclass(library="Cmd", class_name="Echo", version=(9,0,0,0))
            [base |-> "Test", library |-> <<67, 109, 100>>,
             class_name |-> <<69, 99, 104, 111>>, version |-> <<9, 0, 0, 0>>,
             hints |-> <<Field("flag", Hint("bool"))>>]

RECURSIVE Mro(_)
\* inspect.getmro(cls) without object: the class, then its bases
Mro(c) == IF c = NoClass THEN <<>> ELSE <<c>> \o Mro(ClassDef(c).base)

Reverse(seq) == [i \in 1..Len(seq) |-> seq[Len(seq) + 1 - i]]

\* hasattr(base, '__is_lv_class__') and base.__is_lv_class__: the attribute
\* is set on a class by its decorator and inherited from its bases
IsLvClass(c, decorated) == \E i \in 1..Len(Mro(c)) : Mro(c)[i] \in decorated

\* the class whose decorator set the __lv_*__ attributes that c shows
LvOwner(c, decorated) ==
    LET own == SelectSeq(Mro(c), LAMBDA b : b \in decorated) IN Head(own)

\* the inheritance chain, root first (the reversed, filtered MRO)
InheritanceChain(c, decorated) ==
    Reverse(SelectSeq(Mro(c), LAMBDA b : IsLvClass(b, decorated)))

\* the full LabVIEW name built by the decorator and by _instance_to_lvobject_dict
FullName(library, class_name) ==
    IF Len(library) > 0 THEN library \o DotLvlib \o Colon \o class_name \o DotLvclass
    ELSE class_name \o DotLvclass

QualifiedName(c) == FullName(ClassDef(c).library, ClassDef(c).class_name)

\* hasattr(instance, name) / getattr(instance, name): instances are
\* [cls, attrs], attrs the attributes that have a value
HasAttr(instance, name) == name \in DOMAIN instance.attrs

GetAttr(instance, name) == instance.attrs[name]

(***************************************************************************)
(* serialize_type_hints / deserialize_type_hints: one level's fields.      *)
(***************************************************************************)
\* the default written for a hint whose field has no value;
\* k = "None" stands for the `continue` of an unsupported hint
DefaultValue(h) ==
    CASE h.kind = "LVString" -> PyStr(<<>>)
      [] h.kind = "LVBoolean" -> PyBool(FALSE)
      [] h.kind \in IntTags -> PyInt(0)
      [] h.kind = "LVArray" -> PyList(<<>>)
      [] h.kind = "str" -> PyStr(<<>>)
      [] h.kind = "bool" -> PyBool(FALSE)
      [] h.kind = "int" -> PyInt(0)
      [] h.kind = "float" -> PyFloat(0)
      [] h.kind = "list" -> PyList(<<>>)
      [] OTHER -> PyNone

\* the `# Serialize based on type hint` chain of serialize_type_hints
SerializeField(h, value) ==
    IF IsConstruct(h) THEN ConstructBuild(h, value)
    ELSE IF h.kind = "str" \/ value.k = "str" THEN StringBuild(value)
    ELSE IF h.kind = "bool" \/ value.k = "bool" THEN BooleanBuild(value)
    ELSE IF h.kind = "int" \/ IsIntLike(value) THEN IntBuild("LVI32", value)
    ELSE IF h.kind = "float" \/ value.k = "float" THEN DoubleBuild(value)
    ELSE [ok |-> TRUE, bytes |-> <<>>]

RECURSIVE SerializeFields(_, _)
\* the loop over type_hints.items() once some field has a value
SerializeFields(hints, values) ==
    IF hints = <<>> THEN [ok |-> TRUE, bytes |-> <<>>]
    ELSE LET h == Head(hints)
             value == IF h.name \in DOMAIN values THEN values[h.name]
                      ELSE DefaultValue(h.type)
             this == IF value.k = "None" THEN [ok |-> TRUE, bytes |-> <<>>]
                     ELSE SerializeField(h.type, value)
             rest == SerializeFields(Tail(hints), values)
         IN  IF this.ok /\ rest.ok THEN [ok |-> TRUE, bytes |-> this.bytes \o rest.bytes]
             ELSE BuildFail

serialize_type_hints(type_hints, values) ==
    IF type_hints = <<>> THEN [ok |-> TRUE, bytes |-> <<>>]
    ELSE IF ~(\E i \in 1..Len(type_hints) : type_hints[i].name \in DOMAIN values)
    THEN [ok |-> TRUE, bytes |-> <<>>]
    ELSE SerializeFields(type_hints, values)

\* the `# Deserialize based on type hint` chain of deserialize_type_hints;
\* skip is the `continue` of an unknown hint
DeserializeField(h, bytes, pos) ==
    IF IsConstruct(h) THEN ConstructParse(h, bytes, pos)
    ELSE IF h.kind = "str" THEN StringParse(bytes, pos)
    ELSE IF h.kind = "bool" THEN BooleanParse(bytes, pos)
    ELSE IF h.kind = "int" THEN IntParse("LVI32", bytes, pos)
    ELSE IF h.kind = "float" THEN DoubleParse(bytes, pos)
    ELSE [ok |-> TRUE, val |-> PyNone, pos |-> pos]

NoAttrs == [n \in {} |-> PyNone]

SetAttr(attrs, name, value) ==
    [n \in DOMAIN attrs \cup {name} |-> IF n = name THEN value ELSE attrs[n]]

\* {**a, **b}: the attributes of a overridden by those of b
Update(a, b) ==
    [n \in DOMAIN a \cup DOMAIN b |-> IF n \in DOMAIN b THEN b[n] ELSE a[n]]

RECURSIVE DeserializeFields(_, _, _, _)
\* the loop of deserialize_type_hints: [result, warned]; a failing field
\* warns and breaks, the fields before it keep their values
DeserializeFields(hints, bytes, pos, result) ==
    IF hints = <<>> THEN [result |-> result, warned |-> {}]
    ELSE LET h == Head(hints)
             Warn(t) == [result |-> t.result, warned |-> t.warned \cup {"unknown_hint"}]
             After(r) ==
                 IF ~r.ok THEN [result |-> result, warned |-> {"field_failed"}]
                 ELSE IF r.val.k = "None"
                 THEN Warn(DeserializeFields(Tail(hints), bytes, r.pos, result))
                 ELSE DeserializeFields(Tail(hints), bytes, r.pos,
                                        SetAttr(result, h.name, r.val))
         IN  After(DeserializeField(h.type, bytes, pos))

\* the function as it would be if a failing field discarded the fields
\* decoded before it
DeserializeAllOrNothing(type_hints, cluster_bytes) ==
    IF type_hints = <<>> \/ cluster_bytes = <<>> THEN [result |-> NoAttrs, warned |-> {}]
    ELSE LET Whole(r) ==
                 IF "field_failed" \in r.warned
                 THEN [result |-> NoAttrs, warned |-> r.warned] ELSE r
         IN  Whole(DeserializeFields(type_hints, cluster_bytes, 0, NoAttrs))

deserialize_type_hints(type_hints, cluster_bytes) ==
    IF type_hints = <<>> \/ cluster_bytes = <<>> THEN [result |-> NoAttrs, warned |-> {}]
    ELSE DeserializeFields(type_hints, cluster_bytes, 0, NoAttrs)

(***************************************************************************)
(* LVObjectAdapter._encode and _instance_to_lvobject_dict.                 *)
(* An object dict is [num_levels, class_name, versions, cluster_data].     *)
(***************************************************************************)
\* class_name None of the empty object
NoName == <<-1>>

LVObjectDict(num_levels, class_name, versions, cluster_data) ==
    [num_levels |-> num_levels, class_name |-> class_name,
     versions |-> versions, cluster_data |-> cluster_data]

\* _calculate_padding(bytes_count, alignment=4)
_calculate_padding(bytes_count) == (4 - (bytes_count % 4)) % 4

\* the index of the first ':' of a name, 0 when there is none
FirstColon(name) ==
    IF \E i \in 1..Len(name) : name[i] = Colon[1]
    THEN CHOOSE i \in 1..Len(name) :
             name[i] = Colon[1] /\ \A j \in 1..(i - 1) : name[j] # Colon[1]
    ELSE 0

\* class_name_data.split(':', 1): [library, classname]
SplitClassName(name) ==
    IF FirstColon(name) = 0 THEN [library |-> <<>>, classname |-> name]
    ELSE [library |-> SubSeq(name, 1, FirstColon(name) - 1),
          classname |-> SubSeq(name, FirstColon(name) + 1, Len(name))]

\* the ClassName section as it would be if a length that does not fit one
\* byte were written reduced modulo 256
ClassNameSectionWrapped(class_name_data) ==
    LET parts == SplitClassName(class_name_data)
        library == parts.library
        classname == parts.classname
        total_length == (IF Len(library) > 0 THEN 1 + Len(library) ELSE 0)
                        + 1 + Len(classname) + 1
    IN  IF ~(Latin1Ok(library) /\ Latin1Ok(classname))
        THEN BuildFail
        ELSE [ok |-> TRUE,
              bytes |-> <<total_length % 256>>
                        \o (IF Len(library) > 0
                            THEN <<Len(library) % 256>> \o Latin1Encode(library)
                            ELSE <<>>)
                        \o <<Len(classname) % 256>> \o Latin1Encode(classname)
                        \o <<0>>
                        \o Zeros(_calculate_padding(1 + total_length))]

\* the ClassName section written by _encode: total length, the Pascal
\* strings of the most derived class, the end marker and the padding
ClassNameSection(class_name_data) ==
    LET parts == SplitClassName(class_name_data)
        library == parts.library
        classname == parts.classname
        total_length == (IF Len(library) > 0 THEN 1 + Len(library) ELSE 0)
                        + 1 + Len(classname) + 1
    IN  IF ~(Latin1Ok(library) /\ Latin1Ok(classname) /\ U8Fits(total_length)
             /\ U8Fits(Len(library)) /\ U8Fits(Len(classname)))
        THEN BuildFail
        ELSE [ok |-> TRUE,
              bytes |-> <<total_length>>
                        \o (IF Len(library) > 0
                            THEN <<Len(library)>> \o Latin1Encode(library) ELSE <<>>)
                        \o <<Len(classname)>> \o Latin1Encode(classname)
                        \o <<0>>
                        \o Zeros(_calculate_padding(1 + total_length))]

\* VersionStruct.build of every version
VersionList(versions) ==
    IF \A i \in 1..Len(versions) :
           Len(versions[i]) = 4 /\ \A j \in 1..4 : IntFits("LVU16", versions[i][j])
    THEN [ok |-> TRUE,
          bytes |-> Concat([i \in 1..Len(versions) |->
                        Concat([j \in 1..4 |-> U16(versions[i][j])])])]
    ELSE BuildFail

\* ClusterData as it would be without the test for all levels being empty
ClusterDataAlways(cluster_bytes_list) ==
    Concat([i \in 1..Len(cluster_bytes_list) |->
               U32(Len(cluster_bytes_list[i])) \o cluster_bytes_list[i]])

\* ClusterData as it would be if an empty level were skipped
ClusterDataSkipEmpty(cluster_bytes_list) ==
    Concat([i \in 1..Len(cluster_bytes_list) |->
               IF Len(cluster_bytes_list[i]) = 0 THEN <<>>
               ELSE U32(Len(cluster_bytes_list[i])) \o cluster_bytes_list[i]])

\* the ClusterData written by _encode: nothing when every level is empty
ClusterData(cluster_bytes_list) ==
    IF \A i \in 1..Len(cluster_bytes_list) : Len(cluster_bytes_list[i]) = 0 THEN <<>>
    ELSE Concat([i \in 1..Len(cluster_bytes_list) |->
                    U32(Len(cluster_bytes_list[i])) \o cluster_bytes_list[i]])

\* LVObjectAdapter._encode of an object dict
EncodeDict(obj) ==
    IF obj.num_levels = 0 THEN [ok |-> TRUE, bytes |-> U32(0)]
    ELSE LET name == ClassNameSection(obj.class_name)
             vers == VersionList(obj.versions)
         IN  IF name.ok /\ vers.ok
             THEN [ok |-> TRUE,
                   bytes |-> U32(obj.num_levels) \o name.bytes \o vers.bytes
                             \o ClusterData(obj.cluster_data)]
             ELSE BuildFail

\* the level_values of one level: the level's own fields that have a value
LevelValues(instance, level_class) ==
    LET hints == ClassDef(level_class).hints
        names == {hints[i].name : i \in 1..Len(hints)}
    IN  [n \in {m \in names : HasAttr(instance, m)} |-> GetAttr(instance, n)]

\* cluster_bytes of one level
LevelBytes(instance, level_class) ==
    serialize_type_hints(ClassDef(level_class).hints, LevelValues(instance, level_class))

\* the versions list as it would be with the most derived version alone
CollectVersionsOwn(chain, decorated) ==
    <<ClassDef(LvOwner(chain[Len(chain)], decorated)).version>>

\* the versions list: collected root first, then reversed
CollectVersions(chain, decorated) ==
    Reverse([i \in 1..Len(chain) |-> ClassDef(LvOwner(chain[i], decorated)).version])

\* the object dict as it would be if it were named after the root class
InstanceToDictRootName(instance, decorated) ==
    LET inheritance_chain == InheritanceChain(instance.cls, decorated)
        levels == [i \in 1..Len(inheritance_chain) |->
                      LevelBytes(instance, inheritance_chain[i])]
        root == LvOwner(inheritance_chain[1], decorated)
    IN  [ok |-> \A i \in 1..Len(levels) : levels[i].ok,
         obj |-> LVObjectDict(Len(inheritance_chain),
                              QualifiedName(root),
                              CollectVersions(inheritance_chain, decorated),
                              [i \in 1..Len(levels) |-> levels[i].bytes])]

_instance_to_lvobject_dict(instance, decorated) ==
    LET inheritance_chain == InheritanceChain(instance.cls, decorated)
        levels == [i \in 1..Len(inheritance_chain) |->
                      LevelBytes(instance, inheritance_chain[i])]
        most_derived == LvOwner(inheritance_chain[Len(inheritance_chain)], decorated)
    IN  [ok |-> \A i \in 1..Len(levels) : levels[i].ok,
         obj |-> LVObjectDict(Len(inheritance_chain),
                              QualifiedName(most_derived),
                              CollectVersions(inheritance_chain, decorated),
                              [i \in 1..Len(levels) |-> levels[i].bytes])]

\* LVObjectAdapter._encode of an @lvclass instance
EncodeInstance(instance, decorated) ==
    LET d == _instance_to_lvobject_dict(instance, decorated)
    IN  IF d.ok THEN EncodeDict(d.obj) ELSE BuildFail

(***************************************************************************)
(* LVObjectAdapter._decode.  A result is                                   *)
(* [kind, num_levels, class_name, versions, cluster_data, cls, attrs,      *)
(*  warnings]: kind "dict" carries the four dict entries, kind "instance"  *)
(* the class and the attributes set on target_class(), kind "error" a      *)
(* raised exception.  versions and cluster_data are always the lists the   *)
(* decoder read from the wire.                                             *)
(***************************************************************************)
Result(kind, obj, cls, attrs, warnings) ==
    [kind |-> kind, num_levels |-> obj.num_levels, class_name |-> obj.class_name,
     versions |-> obj.versions, cluster_data |-> obj.cluster_data,
     cls |-> cls, attrs |-> attrs, warnings |-> warnings]

\* the empty object as it would be with '' for its class name
EmptyObjectNamed == LVObjectDict(0, <<>>, <<>>, <<>>)

\* the dict returned for num_levels == 0, and create_empty_lvobject()
EmptyObject == LVObjectDict(0, NoName, <<>>, <<>>)

Raised == Result("error", EmptyObject, NoClass, NoAttrs, {})

RECURSIVE ReadPascalStrings(_, _, _, _)
\* the `while True` loop over the Pascal strings:
\* [ok, strings, bytes_read_in_section, pos]
ReadPascalStrings(bytes, pos, strings, bytes_read_in_section) ==
    IF pos + 1 > Len(bytes)
    THEN [ok |-> FALSE, strings |-> strings, read |-> bytes_read_in_section, pos |-> pos]
    ELSE LET str_length == bytes[pos + 1]
         IN  IF str_length = 0
             THEN [ok |-> TRUE, strings |-> strings,
                   read |-> bytes_read_in_section + 1, pos |-> pos + 1]
             ELSE ReadPascalStrings(
                      bytes, StreamAdvance(bytes, pos + 1, str_length),
                      Append(strings, Latin1Decode(StreamRead(bytes, pos + 1, str_length))),
                      bytes_read_in_section + 1 + str_length)

\* full_class_name from the Pascal strings read
JoinClassName(pascal_strings) ==
    LET library == IF Len(pascal_strings) >= 2 THEN pascal_strings[1] ELSE <<>>
        classname == IF Len(pascal_strings) = 1 THEN pascal_strings[1]
                     ELSE IF Len(pascal_strings) >= 2 THEN pascal_strings[2]
                     ELSE <<>>
    IN  IF Len(library) > 0 THEN library \o Colon \o classname ELSE classname

\* the version loop as it would be if it stopped after the first version
ReadVersionsFirst(bytes, pos, n) ==
    IF n = 0 THEN [ok |-> TRUE, versions |-> <<>>, pos |-> pos]
    ELSE IF pos + 8 > Len(bytes) THEN [ok |-> FALSE, versions |-> <<>>, pos |-> Len(bytes)]
    ELSE [ok |-> TRUE,
          versions |-> <<[j \in 1..4 |->
                            BytesValue(SubSeq(bytes, pos + 2 * j - 1, pos + 2 * j))]>>,
          pos |-> pos + 8 * n]

RECURSIVE ReadVersions(_, _, _)
\* VersionStruct.parse_stream num_levels times: [ok, versions, pos]
ReadVersions(bytes, pos, n) ==
    IF n = 0 THEN [ok |-> TRUE, versions |-> <<>>, pos |-> pos]
    ELSE IF pos + 8 > Len(bytes) THEN [ok |-> FALSE, versions |-> <<>>, pos |-> Len(bytes)]
    ELSE LET t == ReadVersions(bytes, pos + 8, n - 1)
         IN  [ok |-> t.ok,
              versions |-> <<[j \in 1..4 |->
                                BytesValue(SubSeq(bytes, pos + 2 * j - 1, pos + 2 * j))]>>
                           \o t.versions,
              pos |-> t.pos]

RECURSIVE ReadClusterDataNoSkip(_, _, _)
\* the cluster loop as it would be if it did not consume a level's data
ReadClusterDataNoSkip(bytes, pos, n) ==
    IF n = 0 THEN <<>>
    ELSE LET Level(size) ==
                 IF ~size.ok THEN <<<<>>>> \o ReadClusterDataNoSkip(bytes, size.pos, n - 1)
                 ELSE <<StreamRead(bytes, size.pos, size.val)>>
                      \o ReadClusterDataNoSkip(bytes, size.pos, n - 1)
         IN  Level(ParseU32(bytes, pos))

RECURSIVE ReadClusterData(_, _, _)
\* the loop reading (size, data) per level; a failing read gives b''
ReadClusterData(bytes, pos, n) ==
    IF n = 0 THEN <<>>
    ELSE LET size == ParseU32(bytes, pos)
         IN  IF ~size.ok THEN <<<<>>>> \o ReadClusterData(bytes, size.pos, n - 1)
             ELSE IF size.val > 0
             THEN <<StreamRead(bytes, size.pos, size.val)>>
                  \o ReadClusterData(bytes, StreamAdvance(bytes, size.pos, size.val), n - 1)
             ELSE <<<<>>>> \o ReadClusterData(bytes, size.pos, n - 1)

\* get_lvclass_by_name: _LVCLASS_REGISTRY.get(full_name)
get_lvclass_by_name(reg, full_name) ==
    IF full_name \in DOMAIN reg THEN reg[full_name] ELSE NoClass

RECURSIVE PopulateLevels(_, _, _, _)
\* the loop over the inheritance chain of the class found:
\* [attrs, warned] after levels i.. have been deserialized into attrs
PopulateLevels(chain, cluster_data, i, attrs) ==
    IF i > Len(chain) \/ i > Len(cluster_data) THEN [attrs |-> attrs, warned |-> {}]
    ELSE LET level_hints == ClassDef(chain[i]).hints
             cluster_bytes == cluster_data[i]
             Both(fv, t) == [attrs |-> t.attrs, warned |-> fv.warned \cup t.warned]
             After(fv) ==
                 Both(fv, PopulateLevels(chain, cluster_data, i + 1, Update(attrs, fv.result)))
         IN  IF level_hints # <<>> /\ Len(cluster_bytes) > 0
             THEN After(deserialize_type_hints(level_hints, cluster_bytes))
             ELSE PopulateLevels(chain, cluster_data, i + 1, attrs)

\* LVObjectAdapter._decode of the bytes obj with the registry reg
DecodeObject(obj, reg, decorated) ==
    IF Len(obj) < 4 THEN Raised
    ELSE IF SatValue(SubSeq(obj, 1, 4)) = 0
    THEN Result("dict", EmptyObject, NoClass, NoAttrs, {"empty"})
    ELSE IF Len(obj) < 5 THEN Raised
    ELSE LET num_levels == SatValue(SubSeq(obj, 1, 4))
             names == ReadPascalStrings(obj, 5, <<>>, 0)
             full_class_name == JoinClassName(names.strings)
             bytes_read == 1 + names.read
             after_padding == StreamAdvance(obj, names.pos, _calculate_padding(bytes_read))
             vers == ReadVersions(obj, after_padding, num_levels)
             cluster_data == ReadClusterData(obj, vers.pos, num_levels)
             target_class == get_lvclass_by_name(reg, full_class_name)
             read == LVObjectDict(num_levels, full_class_name, vers.versions, cluster_data)
             Populated(levels) ==
                 Result("instance", read, target_class, levels.attrs, levels.warned)
         IN  IF ~names.ok \/ ~vers.ok THEN Raised
             ELSE IF target_class = NoClass
             THEN Result("dict", read, NoClass, NoAttrs, {"not_found"})
             ELSE Populated(PopulateLevels(InheritanceChain(target_class, decorated),
                                           cluster_data, 1, NoAttrs))

(***************************************************************************)
(* The values the calls are made with.                                     *)
(***************************************************************************)
\* the deepest object dict handed to LVObject().build
MaxLevels == 2

Ints(xs) == PyList([i \in 1..Len(xs) |-> PyInt(xs[i])])

\* the values a field is given
FieldChoices(name) ==
    CASE name = "message" -> {PyStr(<<>>), PyStr(<<72, 233>>)}          \* "", "Hé"
      [] name = "code" -> {PyInt(0), PyInt(42)}
      [] name = "id" -> {PyInt(-1), PyInt(7)}
      [] name = "boolean" -> {PyBool(TRUE)}
      [] name = "number_array" ->
            {Ints(<<>>), Ints(<<1>>), PyList(<<Ints(<<1, 2>>), Ints(<<3, 4>>)>>)}
      [] name = "samples" -> {Ints(<<>>), Ints(<<1>>), Ints(<<2, 3>>)}
      [] name = "count" -> {PyInt(0), PyInt(7)}
      [] name = "flag" -> {PyBool(FALSE), PyBool(TRUE)}

\* the fields declared at any level of a class, root level first
AllHints(c) == Concat([i \in 1..Len(Mro(c)) |-> ClassDef(Reverse(Mro(c))[i]).hints])

\* the names of the fields declared at any level of a class
FieldNames(c) == {AllHints(c)[i].name : i \in 1..Len(AllHints(c))}

RECURSIVE Assignments(_)
\* every way of giving values to some of the fields
Assignments(hints) ==
    IF hints = <<>> THEN {NoAttrs}
    ELSE LET rest == Assignments(Tail(hints))
         IN  rest \cup {SetAttr(a, Head(hints).name, v) :
                            a \in rest, v \in FieldChoices(Head(hints).name)}

\* the instances of a class: cls and the attributes that have a value
Instances(c) == {[cls |-> c, attrs |-> a] : a \in Assignments(AllHints(c))}

\* class names of object dicts: two that no class registers and one that
\* EchoMsg and EchoAlt register
DictNames ==
    {FullName(<<85>>, <<88>>),              \* "U.lvlib:X.lvclass"
     FullName(<<>>, <<66, 67>>),            \* "BC.lvclass"
     FullName(<<67, 109, 100>>, <<69, 99, 104, 111>>)}

\* the version of level i of an object dict
VersionAt(i) == <<i, 0, 2 * i, 300 * i + 1>>

\* the private data of a level of an object dict
LevelData == {<<>>, <<1>>, <<0, 0, 0, 7>>}

\* the object dicts handed to LVObject().build
Dicts ==
    {LVObjectDict(0, NoName, <<>>, <<>>),
     LVObjectDict(0, FullName(<<85>>, <<88>>), <<VersionAt(1)>>, <<<<1>>>>)}
    \cup UNION {{LVObjectDict(n, name, [i \in 1..n |-> VersionAt(i)], data) :
                    name \in DictNames, data \in [1..n -> LevelData]} :
                 n \in 1..MaxLevels}

(***************************************************************************)
(* The program: classes are decorated, values are encoded and the bytes    *)
(* last produced are decoded.                                              *)
(***************************************************************************)
NoArg == [kind |-> "none", cls |-> NoClass, attrs |-> NoAttrs, obj |-> EmptyObject]

Init ==
    /\ registry = [n \in {} |-> NoClass]
    /\ defined = {}
    /\ arg = NoArg
    /\ wire = <<>>
    /\ ret = Result("none", EmptyObject, NoClass, NoAttrs, {})

\* the registry as it would be if a name kept the first class registered
\* under it
RegistryPutIfAbsent(reg, full_name, c) ==
    [n \in DOMAIN reg \cup {full_name} |-> IF n \in DOMAIN reg THEN reg[n] ELSE c]

\* the registry after _LVCLASS_REGISTRY[full_name] = cls
RegistryPut(reg, full_name, c) ==
    [n \in DOMAIN reg \cup {full_name} |-> IF n = full_name THEN c ELSE reg[n]]

\* the class statements in the order the program text executes them
ClassOrder ==
    <<"Message", "SerializableMsg", "EchoMsg", "Test", "Child", "Sample", "EchoAlt">>

\* @lvclass(...) applied to the next class statement, c
Register(c) ==
    /\ c \notin defined
    /\ ClassDef(c).base \in defined \cup {NoClass}
    /\ c = ClassOrder[Cardinality(defined) + 1]
    /\ registry' = RegistryPut(registry, QualifiedName(c), c)
    /\ defined' = defined \cup {c}
    /\ ret' = Result("class", EmptyObject, c, NoAttrs, {})
    /\ UNCHANGED <<arg, wire>>

\* lvflatten(instance) of an instance of a decorated class
Flatten(instance) ==
    /\ instance.cls \in defined
    /\ LET r == EncodeInstance(instance, defined)
       IN  IF r.ok
           THEN /\ arg' = [kind |-> "instance", cls |-> instance.cls,
                           attrs |-> instance.attrs, obj |-> EmptyObject]
                /\ wire' = r.bytes
                /\ ret' = Result("bytes", EmptyObject, NoClass, NoAttrs, {})
           ELSE /\ ret' = Result("encode_error", EmptyObject, NoClass, NoAttrs, {})
                /\ UNCHANGED <<arg, wire>>
    /\ UNCHANGED <<registry, defined>>

\* LVObject().build(obj) of an object dict
Build(obj) ==
    /\ LET r == EncodeDict(obj)
       IN  IF r.ok
           THEN /\ arg' = [kind |-> "dict", cls |-> NoClass, attrs |-> NoAttrs, obj |-> obj]
                /\ wire' = r.bytes
                /\ ret' = Result("bytes", EmptyObject, NoClass, NoAttrs, {})
           ELSE /\ ret' = Result("encode_error", EmptyObject, NoClass, NoAttrs, {})
                /\ UNCHANGED <<arg, wire>>
    /\ UNCHANGED <<registry, defined>>

\* lvunflatten(wire): LVObject().parse of the bytes last produced
Unflatten ==
    /\ ret' = DecodeObject(wire, registry, defined)
    /\ UNCHANGED <<registry, defined, arg, wire>>

\* the names looked up: those of the object dicts and that of Test
LookupNames == DictNames \cup {QualifiedName("Test")}

\* get_lvclass_by_name(full_name); ret holds the name asked for and the
\* class returned
Lookup(full_name) ==
    /\ ret' = Result("lookup", LVObjectDict(0, full_name, <<>>, <<>>),
                     get_lvclass_by_name(registry, full_name), NoAttrs, {})
    /\ UNCHANGED <<registry, defined, arg, wire>>

Next ==
    \/ \E c \in ClassIds : Register(c)
    \/ \E c \in ClassIds : \E instance \in Instances(c) : Flatten(instance)
    \/ \E obj \in Dicts : Build(obj)
    \/ Unflatten

Spec == Init /\ [][Next]_vars

(***************************************************************************)
(* The program with its lookups: classes are decorated and looked up by    *)
(* name between the encoding and decoding calls.                           *)
(***************************************************************************)
\* the instances encoded: of every class, with no field set and with every
\* field set to its first value
RegistryInstances ==
    {[cls |-> c, attrs |-> NoAttrs] : c \in ClassIds}
    \cup {[cls |-> c,
           attrs |-> [n \in FieldNames(c) |-> CHOOSE v \in FieldChoices(n) : TRUE]] :
              c \in ClassIds}

\* the object dicts encoded: of one level, under every name
RegistryDicts ==
    {LVObjectDict(1, name, <<VersionAt(1)>>, <<<<0, 0, 0, 7>>>>) : name \in DictNames}

NextRegistry ==
    \/ \E c \in ClassIds : Register(c)
    \/ \E full_name \in LookupNames : Lookup(full_name)
    \/ \E instance \in RegistryInstances : Flatten(instance)
    \/ \E obj \in RegistryDicts : Build(obj)
    \/ Unflatten

SpecRegistry == Init /\ [][NextRegistry]_vars

(***************************************************************************)
(* The array codec on its own: LVArray(element_type).build(a) and          *)
(* .parse(data) with the encoded array as the whole input.                 *)
(***************************************************************************)
\* the nesting depths of the arrays built
Ranks == 1..3

\* the largest size of a dimension
MaxDim == 3

ElemTags == {"LVI32", "LVU8", "LVI16"}

Seeds == {0, 1, 2}

\* the j-th element, in row-major order, of the array filled from seed
ElemValue(elem, seed, j) ==
    CASE seed = 0 -> 0
      [] seed = 1 -> j % 128
      [] seed = 2 -> IF IntSigned(elem) THEN -(j % 128) ELSE (256 - j) % 256

RECURSIVE Nested(_, _, _, _)
\* the nested list of shape dims whose elements follow base in row-major order
Nested(elem, seed, dims, base) ==
    IF Len(dims) = 1
    THEN PyList([j \in 1..dims[1] |-> PyInt(ElemValue(elem, seed, base + j))])
    ELSE PyList([i \in 1..dims[1] |->
                    Nested(elem, seed, Tail(dims), base + (i - 1) * Prod(Tail(dims)))])

Shapes == UNION {[1..r -> 1..MaxDim] : r \in Ranks}

\* the arrays built: every shape, filled three ways, and the empty 1-D array
Arrays(elem) ==
    {PyList(<<>>)} \cup {Nested(elem, seed, dims, 0) : seed \in Seeds, dims \in Shapes}

\* the array and the element type of the run
InitArray ==
    /\ registry = [n \in {} |-> NoClass]
    /\ defined = {}
    /\ \E elem \in ElemTags : \E a \in Arrays(elem) :
           arg = [kind |-> "array", elem |-> elem, val |-> a]
    /\ wire = <<>>
    /\ ret = [kind |-> "none", val |-> PyNone, pos |-> 0]

\* data = LVArray(elem).build(a)
BuildArray ==
    /\ ret.kind = "none"
    /\ LET Built(r) ==
               IF r.ok
               THEN /\ wire' = r.bytes
                    /\ ret' = [kind |-> "bytes", val |-> PyNone, pos |-> 0]
               ELSE /\ ret' = [kind |-> "error", val |-> PyNone, pos |-> 0]
                    /\ UNCHANGED wire
       IN  Built(ArrayBuild(arg.elem, arg.val))
    /\ UNCHANGED <<registry, defined, arg>>

\* LVArray(elem).parse(data)
ParseArray ==
    /\ ret.kind = "bytes"
    /\ LET Parsed(r) ==
               IF r.ok THEN [kind |-> "array", val |-> r.val, pos |-> r.pos]
               ELSE [kind |-> "error", val |-> PyNone, pos |-> r.pos]
       IN  ret' = Parsed(ArrayParse(arg.elem, wire, 0))
    /\ UNCHANGED <<registry, defined, arg, wire>>

NextArray == BuildArray \/ ParseArray

SpecArray == InitArray /\ [][NextArray]_vars

(***************************************************************************)
(* Properties of the array codec, under SpecArray.                         *)
(***************************************************************************)
RECURSIVE ShapeOf(_)
\* the sizes of the nesting levels of a rectangular nested list
ShapeOf(val) ==
    IF val.k # "list" \/ val.items = <<>> THEN <<>>
    ELSE <<Len(val.items)>> \o ShapeOf(val.items[1])

RECURSIVE RowMajor(_)
\* the integers of a nested list, the last index varying fastest
RowMajor(val) ==
    IF val.k # "list" THEN <<val.v>>
    ELSE Concat([i \in 1..Len(val.items) |-> RowMajor(val.items[i])])

\* the array [[1,2,3],[4,5,6]]
Matrix2x3 == PyList(<<Ints(<<1, 2, 3>>), Ints(<<4, 5, 6>>)>>)

\* the u32 words an encoding starts with
Words(bytes, n) == [i \in 1..n |-> BytesValue(SubSeq(bytes, 4 * i - 3, 4 * i))]

\* C9: a rectangular array of fixed-size elements of rank 1 to 3 with every
\* dimension at least 1, and the empty 1-D array, decodes from its own
\* encoding, taken as the whole input, to the same nested value.
C9_ArrayRoundTrip ==
    (arg.kind = "array" /\ ret.kind \notin {"none", "bytes"})
        => (ret.kind = "array" /\ ret.val = arg.val /\ ret.pos = Len(wire))

\* C9 happens: the 2x3 I32 array came back as 2 rows of 3 elements
C9_Witness ==
    /\ arg.kind = "array" /\ arg.elem = "LVI32" /\ arg.val = Matrix2x3
    /\ ret.kind = "array"
    /\ ShapeOf(ret.val) = <<2, 3>>

Encoded == arg.kind \in {"instance", "dict"} /\ ret.kind = "bytes"

Decoded == arg.kind \in {"instance", "dict"} /\ ret.kind \in {"error", "dict", "instance"}

\* the classes of the value encoded, root first (every class statement of
\* the program is decorated)
ArgChain == Reverse(Mro(arg.cls))

\* the number of levels of the value encoded
ArgLevels == IF arg.kind = "instance" THEN Len(ArgChain) ELSE arg.obj.num_levels

\* the bytes of the own fields of each level of the value encoded, root first
ArgLevelBytes ==
    IF arg.kind = "instance"
    THEN [i \in 1..Len(ArgChain) |->
             LevelBytes([cls |-> arg.cls, attrs |-> arg.attrs], ArgChain[i]).bytes]
    ELSE arg.obj.cluster_data

\* the class name the encoded value carries
ArgName == IF arg.kind = "instance" THEN QualifiedName(arg.cls) ELSE arg.obj.class_name

AllEmpty(levels) == \A i \in 1..Len(levels) : levels[i] = <<>>

\* the size of the ClassName section that starts at the fifth byte: the
\* length byte and the bytes it counts, rounded up to a multiple of 4
WireSectionSize == 4 * ((wire[5] + 4) \div 4)

\* C1 as stated: an instance of a registered class whose declared fields
\* all have values comes back from lvunflatten(lvflatten(instance)) as an
\* instance of the same class with the same field values.
C1_RoundTrip ==
    (/\ arg.kind = "instance" /\ ret.kind \in {"error", "dict", "instance"}
     /\ get_lvclass_by_name(registry, QualifiedName(arg.cls)) = arg.cls
     /\ DOMAIN arg.attrs = FieldNames(arg.cls))
        => (ret.kind = "instance" /\ ret.cls = arg.cls /\ ret.attrs = arg.attrs)

\* C2: when every level's bytes are empty the encoding is NumLevels, the
\* ClassName section and NumLevels version entries of 8 bytes and nothing
\* else; decoding it gives NumLevels versions and NumLevels empty levels.
C2_AllLevelsEmpty ==
    LET Holds(levels) ==
            (ArgLevels >= 1 /\ AllEmpty(levels))
                => (/\ Words(wire, 1) = <<ArgLevels>>
                    /\ Len(wire) = 4 + WireSectionSize + 8 * ArgLevels
                    /\ Decoded => (/\ ret.kind # "error"
                                   /\ Len(ret.versions) = ArgLevels
                                   /\ ret.cluster_data = [i \in 1..ArgLevels |-> <<>>]))
    IN  (Encoded \/ Decoded) => Holds(ArgLevelBytes)

\* C2 happens: a 2-level chain without fields was encoded and decoded
C2_Witness ==
    /\ arg.kind = "instance" /\ arg.cls = "SerializableMsg"
    /\ ret.kind = "instance" /\ ret.num_levels = 2
    /\ ret.cluster_data = <<<<>>, <<>>>>
    /\ Len(wire) = 44

\* a Pascal string: a length byte and the characters
Pascal(text) == <<Len(text)>> \o text

\* C3: the ClassName section holds the Pascal strings of the library and
\* class name of the most derived class and nothing of its ancestors, so
\* classes of the same name and different ancestors give the same section;
\* without a library it holds a single Pascal string.
C3_ClassNameSection ==
    LET library == ClassDef(arg.cls).library
        strings == (IF library # <<>> THEN Pascal(library \o DotLvlib) ELSE <<>>)
                   \o Pascal(ClassDef(arg.cls).class_name \o DotLvclass)
    IN  (arg.kind = "instance" /\ ret.kind = "bytes")
            => (/\ wire[5] = Len(strings) + 1
                /\ SubSeq(wire, 6, 6 + Len(strings)) = strings \o <<0>>
                /\ library = <<>> => wire[5] = wire[6] + 2)

\* C3 happens: EchoAlt, whose name EchoMsg also has with other ancestors
C3_Witness ==
    /\ arg.kind = "instance" /\ arg.cls = "EchoAlt" /\ ret.kind = "bytes"
    /\ "EchoMsg" \in defined
    /\ QualifiedName("EchoMsg") = QualifiedName("EchoAlt")
    /\ Mro("EchoMsg")[2] # Mro("EchoAlt")[2]

\* the 8 bytes of a version entry
VersionBytes(version) == Concat([j \in 1..4 |-> U16(version[j])])

RECURSIVE SumLen(_)
SumLen(levels) == IF levels = <<>> THEN 0 ELSE 4 + Len(Head(levels)) + SumLen(Tail(levels))

\* C4: the encoding of an instance starts with the number of levels of its
\* chain, and its VersionList is that many entries of 8 bytes, one for
\* each class of the chain.
C4_NumLevelsAndVersions ==
    LET n == Len(ArgChain)
        start == 4 + WireSectionSize
        Holds(levels) ==
            /\ Words(wire, 1) = <<n>>
            /\ Len(wire) = start + 8 * n + (IF AllEmpty(levels) THEN 0 ELSE SumLen(levels))
            /\ {SubSeq(wire, start + 8 * i - 7, start + 8 * i) : i \in 1..n}
                   = {VersionBytes(ClassDef(ArgChain[i]).version) : i \in 1..n}
    IN  (arg.kind = "instance" /\ ret.kind = "bytes") => Holds(ArgLevelBytes)

\* C4 happens: an instance with a chain of three levels was encoded
C4_Witness ==
    /\ arg.kind = "instance" /\ arg.cls = "EchoMsg" /\ ret.kind = "bytes"
    /\ Words(wire, 1) = <<3>>
    /\ DOMAIN arg.attrs = {"message", "code"}

\* C5: when some level's bytes are not empty, what follows the VersionList
\* is, for every level from the root to the most derived one, a u32 length
\* and that many bytes, a zero length and no bytes for an empty level.
C5_ClusterData ==
    LET start == 4 + WireSectionSize + 8 * ArgLevels
        Holds(levels) ==
            (ArgLevels >= 1 /\ ~AllEmpty(levels))
                => SubSeq(wire, start + 1, Len(wire))
                       = Concat([i \in 1..ArgLevels |-> U32(Len(levels[i])) \o levels[i]])
    IN  Encoded => Holds(ArgLevelBytes)

\* C5 happens: an EchoMsg whose two ancestor levels are empty was encoded
C5_Witness ==
    /\ arg.kind = "instance" /\ arg.cls = "EchoMsg" /\ ret.kind = "bytes"
    /\ "code" \in DOMAIN arg.attrs
    /\ SubSeq(wire, Len(wire) - 17, Len(wire) - 10) = <<0, 0, 0, 0, 0, 0, 0, 0>>

\* C6: decoding the encoding of an object of one or more levels whose class
\* name is not registered does not raise; it returns, with a warning, the
\* generic result whose num_levels, class name, versions and per-level
\* bytes are those on the wire: encoding them again gives the same bytes.
C6_UnknownClass ==
    (Decoded /\ ArgLevels >= 1 /\ ArgName \notin DOMAIN registry)
        => (/\ ret.kind = "dict"
            /\ ret.warnings # {}
            /\ <<ret.num_levels>> = Words(wire, 1)
            /\ EncodeDict(LVObjectDict(ret.num_levels, ret.class_name,
                                       ret.versions, ret.cluster_data))
                   = [ok |-> TRUE, bytes |-> wire])

\* C6 happens: two levels of an unregistered class came back with a warning
C6_Witness ==
    /\ ret.kind = "dict" /\ "not_found" \in ret.warnings
    /\ ret.num_levels = 2
    /\ ret.class_name \notin DOMAIN registry
    /\ ret.cluster_data = <<<<1>>, <<0, 0, 0, 7>>>>

\* C7: an object of no levels encodes to the four bytes 00 00 00 00, and
\* they decode to the empty object: num_levels 0, no class name, no
\* versions and no cluster data.
C7_EmptyObject ==
    (arg.kind = "dict" /\ arg.obj.num_levels = 0)
        => (/\ wire = <<0, 0, 0, 0>>
            /\ Decoded => (/\ ret.kind = "dict"
                           /\ ret.num_levels = 0
                           /\ ret.class_name = NoName
                           /\ ret.versions = <<>>
                           /\ ret.cluster_data = <<>>))

\* C7 happens: the four bytes were decoded
C7_Witness ==
    /\ arg.kind = "dict" /\ arg.obj.num_levels = 0
    /\ wire = <<0, 0, 0, 0>>
    /\ ret.kind = "dict" /\ "empty" \in ret.warnings

\* C8: an object dict of an unregistered class with one or more levels, as
\* many versions and cluster data entries as levels, versions of four u16
\* and byte strings for data, comes back from decode(encode(d)) with the
\* same num_levels, class_name, versions and cluster_data.
C8_DictRoundTrip ==
    (/\ arg.kind = "dict" /\ ret.kind \in {"error", "dict", "instance"}
     /\ arg.obj.num_levels >= 1
     /\ Len(arg.obj.versions) = arg.obj.num_levels
     /\ Len(arg.obj.cluster_data) = arg.obj.num_levels
     /\ arg.obj.class_name \notin DOMAIN registry)
        => (/\ ret.kind = "dict"
            /\ ret.num_levels = arg.obj.num_levels
            /\ ret.class_name = arg.obj.class_name
            /\ ret.versions = arg.obj.versions
            /\ ret.cluster_data = arg.obj.cluster_data)

\* C8 happens: a dict of two levels, the first one empty, came back
C8_Witness ==
    /\ arg.kind = "dict" /\ arg.obj.num_levels = 2
    /\ arg.obj.class_name \notin DOMAIN registry
    /\ arg.obj.cluster_data = <<<<>>, <<0, 0, 0, 7>>>>
    /\ ret.kind = "dict" /\ ret.versions = <<VersionAt(1), VersionAt(2)>>

(***************************************************************************)
(* ClusterAdapter: LVCluster of field Constructs, an Adapter over a         *)
(* Struct of the fields field_0, field_1, ...                              *)
(***************************************************************************)
PyTuple(xs) == [k |-> "tuple", v |-> 0, s |-> <<>>, items |-> xs]

RECURSIVE BuildFields(_, _, _)
\* Struct._build: each field Construct writes obj["field_i"] to the stream
\* in turn; a missing key or a failing field raises
BuildFields(field_constructs, values, i) ==
    IF i > Len(field_constructs) THEN [ok |-> TRUE, bytes |-> <<>>]
    ELSE IF i > Len(values) THEN BuildFail
    ELSE LET Rest(h, r) == IF r.ok THEN [ok |-> TRUE, bytes |-> h.bytes \o r.bytes]
                           ELSE BuildFail
             After(h) == IF ~h.ok THEN BuildFail
                         ELSE Rest(h, BuildFields(field_constructs, values, i + 1))
         IN  After(ConstructBuild(field_constructs[i], values[i]))

\* the build as an early variant of the cluster wrote it: every field
\* aligned to a multiple of 4 bytes
ClusterBuildAligned(field_constructs, obj) ==
    LET Pad(r) == [ok |-> r.ok,
                   bytes |-> r.bytes \o Zeros((4 - (Len(r.bytes) % 4)) % 4)]
        Fields(built) ==
            IF \A i \in 1..Len(built) : built[i].ok
            THEN [ok |-> TRUE, bytes |-> Concat([i \in 1..Len(built) |-> built[i].bytes])]
            ELSE BuildFail
    IN  IF obj.k \notin {"tuple", "list"} \/ Len(obj.items) < Len(field_constructs)
        THEN BuildFail
        ELSE Fields([i \in 1..Len(field_constructs) |->
                        Pad(ConstructBuild(field_constructs[i], obj.items[i]))])

\* ClusterAdapter._encode, then the build of the Struct
ClusterBuild(field_constructs, obj) ==
    IF obj.k \notin {"tuple", "list"} THEN BuildFail
    ELSE BuildFields(field_constructs, obj.items, 1)

RECURSIVE ParseFields(_, _, _, _)
\* Struct._parse: each field Construct reads from the stream in turn;
\* [ok, vals, ends, pos], ends being the stream position after each field
ParseFields(field_constructs, bytes, pos, i) ==
    IF i > Len(field_constructs)
    THEN [ok |-> TRUE, vals |-> <<>>, ends |-> <<>>, pos |-> pos]
    ELSE LET Rest(h, r) == [ok |-> r.ok, vals |-> <<h.val>> \o r.vals,
                            ends |-> <<h.pos>> \o r.ends, pos |-> r.pos]
             After(h) == IF ~h.ok
                         THEN [ok |-> FALSE, vals |-> <<>>, ends |-> <<>>, pos |-> h.pos]
                         ELSE Rest(h, ParseFields(field_constructs, bytes, h.pos, i + 1))
         IN  After(ConstructParse(field_constructs[i], bytes, pos))

\* the parse of the Struct, then ClusterAdapter._decode
ClusterParse(field_constructs, bytes, pos) ==
    LET AsTuple(r) == [ok |-> r.ok, val |-> IF r.ok THEN PyTuple(r.vals) ELSE PyNone,
                       ends |-> r.ends, pos |-> r.pos]
    IN  AsTuple(ParseFields(field_constructs, bytes, pos, 1))

(***************************************************************************)
(* The cluster codec on its own: LVCluster(...).build(t) and .parse(data)  *)
(* with the encoded cluster as the whole input.                            *)
(***************************************************************************)
\* the largest number of fields of a cluster
MaxFields == 3

\* a field of a cluster: its Construct and the value it is given
ClusterField(h, x) == [hint |-> h, val |-> x]

ClusterFieldChoices ==
    {ClusterField(Hint("LVI32"), PyInt(7)),
     ClusterField(Hint("LVI32"), PyInt(-1)),
     ClusterField(Hint("LVString"), PyStr(<<72, 233>>)),
     ClusterField(Hint("LVBoolean"), PyBool(TRUE)),
     ClusterField(ArrayOf("LVI32"), Ints(<<>>)),
     ClusterField(ArrayOf("LVI32"), Ints(<<1>>)),
     ClusterField(ArrayOf("LVI32"), Ints(<<1, 2, 3>>)),
     ClusterField(ArrayOf("LVU8"), Ints(<<1>>)),
     ClusterField(ArrayOf("LVU8"), Ints(<<2, 3>>))}

Clusters == UNION {[1..n -> ClusterFieldChoices] : n \in 1..MaxFields}

\* the cluster and the tuple of the run
InitCluster ==
    /\ registry = [n \in {} |-> NoClass]
    /\ defined = {}
    /\ \E c \in Clusters :
           arg = [kind |-> "cluster",
                  fields |-> [i \in 1..Len(c) |-> c[i].hint],
                  val |-> PyTuple([i \in 1..Len(c) |-> c[i].val])]
    /\ wire = <<>>
    /\ ret = [kind |-> "none", val |-> PyNone, ends |-> <<>>, pos |-> 0]

\* data = LVCluster(fields...).build(t)
BuildCluster ==
    /\ ret.kind = "none"
    /\ LET Built(r) ==
               IF r.ok
               THEN /\ wire' = r.bytes
                    /\ ret' = [kind |-> "bytes", val |-> PyNone, ends |-> <<>>, pos |-> 0]
               ELSE /\ ret' = [kind |-> "error", val |-> PyNone, ends |-> <<>>, pos |-> 0]
                    /\ UNCHANGED wire
       IN  Built(ClusterBuild(arg.fields, arg.val))
    /\ UNCHANGED <<registry, defined, arg>>

\* LVCluster(fields...).parse(data)
ParseCluster ==
    /\ ret.kind = "bytes"
    /\ LET Parsed(r) ==
               IF r.ok THEN [kind |-> "cluster", val |-> r.val, ends |-> r.ends, pos |-> r.pos]
               ELSE [kind |-> "error", val |-> PyNone, ends |-> <<>>, pos |-> r.pos]
       IN  ret' = Parsed(ClusterParse(arg.fields, wire, 0))
    /\ UNCHANGED <<registry, defined, arg, wire>>

NextCluster == BuildCluster \/ ParseCluster

SpecCluster == InitCluster /\ [][NextCluster]_vars

(***************************************************************************)
(* Properties of the cluster codec, under SpecCluster.                     *)
(***************************************************************************)
\* the encoding of each field of the cluster of the run, on its own
FieldEncodings ==
    [i \in 1..Len(arg.fields) |-> ConstructBuild(arg.fields[i], arg.val.items[i]).bytes]

RECURSIVE TotalLen(_)
\* the sum of the lengths of byte strings
TotalLen(seqs) == IF seqs = <<>> THEN 0 ELSE Len(Head(seqs)) + TotalLen(Tail(seqs))

\* the number of bytes of the first n field encodings
FieldEnd(n) == TotalLen(SubSeq(FieldEncodings, 1, n))

\* a cluster of two or more LVArray fields of fixed-size elements
ArraysOnly ==
    /\ arg.kind = "cluster" /\ Len(arg.fields) >= 2
    /\ \A i \in 1..Len(arg.fields) :
           arg.fields[i].kind = "LVArray" /\ Sizeof(arg.fields[i].elem) > 0

\* C11 as stated: a cluster of two or more LVArray fields of fixed-size
\* elements, given 1-D arrays, decodes from its own encoding to the same
\* arrays, each array consuming exactly the bytes of its own encoding.
C11_SelfDelimiting ==
    (ArraysOnly /\ ret.kind \in {"cluster", "error"})
        => (/\ ret.kind = "cluster"
            /\ ret.val = arg.val
            /\ ret.ends = [i \in 1..Len(arg.fields) |-> FieldEnd(i)])

\* the case the documentation of LVArray shows: ([1, 2, 3], [1, 2, 3]) of
\* I32 comes back unchanged
C11_DocumentedCase ==
    (/\ ArraysOnly /\ ret.kind \in {"cluster", "error"}
     /\ \A i \in 1..Len(arg.fields) : arg.val.items[i] = Ints(<<1, 2, 3>>))
        => (ret.kind = "cluster" /\ ret.val = arg.val)

\* C12: the encoding of a cluster is the concatenation of the encodings of
\* its fields in declared order, with no count before them and no padding
\* between or after them; its length is the sum of their lengths.
C12_ClusterConcatenation ==
    (arg.kind = "cluster" /\ ret.kind = "bytes")
        => (/\ wire = Concat(FieldEncodings)
            /\ Len(wire) = TotalLen(FieldEncodings))

\* C12 happens: (7, "He'", -1) as I32, String, I32 has been encoded into
\* 4 + 7 + 4 bytes
C12_Witness ==
    /\ arg.kind = "cluster" /\ ret.kind = "bytes"
    /\ arg.fields = <<Hint("LVI32"), Hint("LVString"), Hint("LVI32")>>
    /\ arg.val = PyTuple(<<PyInt(7), PyStr(<<72, 233>>), PyInt(-1)>>)
    /\ Len(wire) = 15

(***************************************************************************)
(* The integer kinds at full width.  A Python int wider than the model's   *)
(* integers is its sign and the base-256 digits of its magnitude, most     *)
(* significant first and without leading zeros: k = "long", v = 1 for a    *)
(* negative number, s the digits.                                          *)
(***************************************************************************)
PyLong(neg, mag) ==
    [k |-> "long", v |-> IF neg /\ mag # <<>> THEN 1 ELSE 0, s |-> mag, items |-> <<>>]

RECURSIVE Strip(_)
\* digits without their leading zeros
Strip(ds) == IF ds # <<>> /\ ds[1] = 0 THEN Strip(Tail(ds)) ELSE ds

\* the Python int n of the model's integers
LongOf(n) == PyLong(n < 0, Strip(BigEndian(IF n < 0 THEN -n ELSE n, 4)))

RECURSIVE Decrement(_)
\* the digits of m - 1 for the digits of m > 0, as many as those of m
Decrement(ds) ==
    IF ds[Len(ds)] > 0 THEN SubSeq(ds, 1, Len(ds) - 1) \o <<ds[Len(ds)] - 1>>
    ELSE Decrement(SubSeq(ds, 1, Len(ds) - 1)) \o <<255>>

RECURSIVE Increment(_)
\* the digits of m + 1, one more than those of m when they are all 255
Increment(ds) ==
    IF ds = <<>> THEN <<1>>
    ELSE IF ds[Len(ds)] < 255 THEN SubSeq(ds, 1, Len(ds) - 1) \o <<ds[Len(ds)] + 1>>
    ELSE Increment(SubSeq(ds, 1, Len(ds) - 1)) \o <<0>>

Complement(bs) == [i \in 1..Len(bs) |-> 255 - bs[i]]

WideTags == {"LVI8", "LVU8", "LVI16", "LVU16", "LVI32", "LVU32", "LVI64", "LVU64"}

WideSize(tag) ==
    CASE tag \in {"LVI8", "LVU8"} -> 1
      [] tag \in {"LVI16", "LVU16"} -> 2
      [] tag \in {"LVI32", "LVU32"} -> 4
      [] tag \in {"LVI64", "LVU64"} -> 8

WideSigned(tag) == tag \in {"LVI8", "LVI16", "LVI32", "LVI64"}

\* the values struct.pack accepts for the format of the kind
WideFits(tag, x) ==
    LET size == WideSize(tag)
        n == Len(x.s)
    IN  IF ~WideSigned(tag) THEN x.v = 0 /\ n <= size
        ELSE IF x.v = 0 THEN n < size \/ (n = size /\ x.s[1] < 128)
        ELSE \/ n < size
             \/ n = size /\ x.s[1] < 128
             \/ n = size /\ x.s = <<128>> \o Zeros(size - 1)

\* big-endian two's complement on size bytes
WideBytes(x, size) ==
    IF x.v = 0 THEN Zeros(size - Len(x.s)) \o x.s
    ELSE Complement(Zeros(size - Len(x.s)) \o Decrement(x.s))

\* IntNsb.build / IntNub.build of any of the eight kinds
WideBuild(tag, x) ==
    LET Packed(n) == IF WideFits(tag, n)
                     THEN [ok |-> TRUE, bytes |-> WideBytes(n, WideSize(tag))]
                     ELSE BuildFail
    IN  IF x.k = "long" THEN Packed(x)
        ELSE IF x.k \in {"int", "bool"} THEN Packed(LongOf(x.v))
        ELSE BuildFail

\* the number a field of the kind holds
WideValue(tag, bs) ==
    IF WideSigned(tag) /\ bs[1] >= 128
    THEN PyLong(TRUE, Strip(Increment(Complement(bs))))
    ELSE PyLong(FALSE, Strip(bs))

\* the parse as it would be if every kind were read as unsigned
WideParseUnsigned(tag, bytes, pos) ==
    IF pos + WideSize(tag) > Len(bytes) THEN ParseFail(Len(bytes))
    ELSE [ok |-> TRUE,
          val |-> PyLong(FALSE, Strip(SubSeq(bytes, pos + 1, pos + WideSize(tag)))),
          pos |-> pos + WideSize(tag)]

\* IntNsb.parse_stream / IntNub.parse_stream of any of the eight kinds
WideParse(tag, bytes, pos) ==
    IF pos + WideSize(tag) > Len(bytes) THEN ParseFail(Len(bytes))
    ELSE [ok |-> TRUE,
          val |-> WideValue(tag, SubSeq(bytes, pos + 1, pos + WideSize(tag))),
          pos |-> pos + WideSize(tag)]

(***************************************************************************)
(* LVBoolean of the af_serializer package is construct's Flag.             *)
(***************************************************************************)
\* Flag.build: b"\x01" if obj else b"\x00"
FlagBuild(x) ==
    IF x.k \in {"int", "bool", "str", "list", "None"}
    THEN [ok |-> TRUE, bytes |-> <<IF Truthy(x) THEN 1 ELSE 0>>]
    ELSE BuildFail

\* Flag.parse_stream: stream_read(stream, 1) != b"\x00"
FlagParse(bytes, pos) ==
    IF pos + 1 > Len(bytes) THEN ParseFail(pos)
    ELSE [ok |-> TRUE, val |-> PyBool(bytes[pos + 1] # 0), pos |-> pos + 1]

(***************************************************************************)
(* The scalar codecs on their own: lvflatten(value, type_hint) and         *)
(* lvunflatten(data, type_hint) with a Construct as the type hint.         *)
(***************************************************************************)
\* the Constructs given as type hints; "Flag" is af_serializer's LVBoolean
ScalarTypes == WideTags \cup {"LVBoolean", "Flag", "LVString"}

\* type_hint.build(data)
TypeBuild(type, x) ==
    CASE type \in WideTags -> WideBuild(type, x)
      [] type = "LVBoolean" -> BooleanBuild(x)
      [] type = "Flag" -> FlagBuild(x)
      [] type = "LVString" -> StringBuild(x)

\* type_hint.parse(data)
TypeParse(type, bytes) ==
    CASE type \in WideTags -> WideParse(type, bytes, 0)
      [] type = "LVBoolean" -> BooleanParse(bytes, 0)
      [] type = "Flag" -> FlagParse(bytes, 0)
      [] type = "LVString" -> StringParse(bytes, 0)

\* the least and the greatest number of a kind
RangeMin(tag) ==
    IF WideSigned(tag) THEN PyLong(TRUE, <<128>> \o Zeros(WideSize(tag) - 1))
    ELSE PyLong(FALSE, <<>>)

RangeMax(tag) ==
    IF WideSigned(tag)
    THEN PyLong(FALSE, <<127>> \o [i \in 1..WideSize(tag) - 1 |-> 255])
    ELSE PyLong(FALSE, [i \in 1..WideSize(tag) |-> 255])

\* the numbers encoded: the small ones, the ends of the range of the kind
\* and the numbers next to them on either side
Numbers(tag) ==
    {LongOf(n) : n \in -130..260}
    \cup {RangeMin(tag), RangeMax(tag),
          PyLong(TRUE, Increment(RangeMin(tag).s)),
          IF WideSigned(tag) THEN PyLong(TRUE, Strip(Decrement(RangeMin(tag).s)))
          ELSE LongOf(1),
          PyLong(FALSE, Increment(RangeMax(tag).s)),
          PyLong(FALSE, Strip(Decrement(RangeMax(tag).s)))}

\* the longest text encoded
MaxText == 2

\* A, e acute, a kanji, an emoji and a lone surrogate
CodePoints == {65, 233, 26085, 128512, 55296}

Texts == UNION {[1..n -> CodePoints] : n \in 0..MaxText}

\* the values encoded with a type hint
ScalarValues(type) ==
    CASE type \in WideTags -> Numbers(type)
      [] type \in {"LVBoolean", "Flag"} -> {PyBool(FALSE), PyBool(TRUE)}
      [] type = "LVString" -> {PyStr(t) : t \in Texts}

\* the bytes decoded that no encoding call produced
RawData(type) ==
    CASE type \in WideTags -> {<<>>, <<255>>}
      [] type \in {"LVBoolean", "Flag"} -> {<<>>} \cup {<<b>> : b \in 0..255}
      [] type = "LVString" ->
            {<<0, 0, 0, 2, 65>>, <<0, 0, 0, 1, 233>>, <<0, 0, 0, 2, 192, 128>>,
             <<0, 0, 0, 3, 237, 160, 128>>, <<0, 0>>}

\* the type hint and the value or the bytes of the run
InitScalar ==
    /\ registry = [n \in {} |-> NoClass]
    /\ defined = {}
    /\ \E type \in ScalarTypes :
           \/ \E x \in ScalarValues(type) :
                  /\ arg = [kind |-> "scalar", type |-> type, val |-> x]
                  /\ wire = <<>>
                  /\ ret = [kind |-> "none", val |-> PyNone]
           \/ \E data \in RawData(type) :
                  /\ arg = [kind |-> "raw", type |-> type, val |-> PyNone]
                  /\ wire = data
                  /\ ret = [kind |-> "data", val |-> PyNone]

\* data = lvflatten(value, type_hint)
FlattenScalar ==
    /\ ret.kind = "none"
    /\ LET Built(r) ==
               IF r.ok
               THEN /\ wire' = r.bytes
                    /\ ret' = [kind |-> "bytes", val |-> PyNone]
               ELSE /\ ret' = [kind |-> "error", val |-> PyNone]
                    /\ UNCHANGED wire
       IN  Built(TypeBuild(arg.type, arg.val))
    /\ UNCHANGED <<registry, defined, arg>>

\* lvunflatten(data, type_hint)
UnflattenScalar ==
    /\ ret.kind \in {"bytes", "data"}
    /\ LET Parsed(r) ==
               IF r.ok THEN [kind |-> "value", val |-> r.val]
               ELSE [kind |-> "error", val |-> PyNone]
       IN  ret' = Parsed(TypeParse(arg.type, wire))
    /\ UNCHANGED <<registry, defined, arg, wire>>

NextScalar == FlattenScalar \/ UnflattenScalar

SpecScalar == InitScalar /\ [][NextScalar]_vars

(***************************************************************************)
(* Properties of the scalar codecs, under SpecScalar.                      *)
(***************************************************************************)
\* C13 as stated: decoding a Boolean gives False for the byte 0x00, True
\* for 0x01 and an error for every other byte, with the LVBoolean of
\* either package.
C13_StrictBoolean ==
    (/\ arg.type \in {"LVBoolean", "Flag"}
     /\ ret.kind \in {"value", "error"} /\ Len(wire) = 1)
        => (/\ wire[1] = 0 => ret = [kind |-> "value", val |-> PyBool(FALSE)]
            /\ wire[1] = 1 => ret = [kind |-> "value", val |-> PyBool(TRUE)]
            /\ wire[1] \notin {0, 1} => ret.kind = "error")

\* the BooleanAdapter of src/basic_types.py alone is strict
C13_BooleanAdapterStrict ==
    (/\ arg.type = "LVBoolean"
     /\ ret.kind \in {"value", "error"} /\ Len(wire) = 1)
        => (/\ wire[1] = 0 => ret = [kind |-> "value", val |-> PyBool(FALSE)]
            /\ wire[1] = 1 => ret = [kind |-> "value", val |-> PyBool(TRUE)]
            /\ wire[1] \notin {0, 1} => ret.kind = "error")

\* magnitudes compared as numbers
MagLess(a, b) ==
    \/ Len(a) < Len(b)
    \/ /\ Len(a) = Len(b)
       /\ \E i \in 1..Len(a) : a[i] < b[i] /\ \A j \in 1..(i - 1) : a[j] = b[j]

LongLeq(a, b) ==
    \/ a = b
    \/ a.v = 1 /\ b.v = 0
    \/ a.v = 0 /\ b.v = 0 /\ MagLess(a.s, b.s)
    \/ a.v = 1 /\ b.v = 1 /\ MagLess(b.s, a.s)

InRange(tag, x) == LongLeq(RangeMin(tag), x) /\ LongLeq(x, RangeMax(tag))

RECURSIVE AddDigits(_, _, _)
\* the digits of a + b + carry for digit strings a and b of one length,
\* with one more digit in front
AddDigits(a, b, carry) ==
    IF a = <<>> THEN <<carry>>
    ELSE LET sum == a[Len(a)] + b[Len(b)] + carry
         IN  AddDigits(SubSeq(a, 1, Len(a) - 1), SubSeq(b, 1, Len(b) - 1), sum \div 256)
             \o <<sum % 256>>

\* bytes is the two's complement of x on Len(bytes) bytes: the unsigned
\* number it spells is x for x >= 0 and 2^(8 * Len(bytes)) - |x| for x < 0
TwosComplement(bytes, x) ==
    IF x.v = 0 THEN Strip(bytes) = x.s
    ELSE AddDigits(bytes, Zeros(Len(bytes) - Len(x.s)) \o x.s, 0)
             = <<1>> \o Zeros(Len(bytes))

\* the number of a small Python int
SmallInt(x) == IF x.v = 1 THEN -BytesValue(x.s) ELSE BytesValue(x.s)

\* C14: for each of the kinds I8, I16, I32, I64, U8, U16, U32, U64 and each
\* value of its range (0, the least, the greatest and -1 among them), the
\* encoding is the big-endian two's complement of the value on the width of
\* the kind and decodes to the value; the integer codec of the object and
\* array models writes the same bytes for the values it can hold.
C14_IntegerRoundTrip ==
    (/\ arg.kind = "scalar" /\ arg.type \in WideTags
     /\ InRange(arg.type, arg.val) /\ ret.kind # "none")
        => (/\ ret.kind \in {"bytes", "value"}
            /\ Len(wire) = WideSize(arg.type)
            /\ TwosComplement(wire, arg.val)
            /\ ret.kind = "value" => ret.val = arg.val
            /\ (arg.type \in IntTags /\ Len(arg.val.s) <= 3)
                   => IntBuild(arg.type, PyInt(SmallInt(arg.val)))
                          = [ok |-> TRUE, bytes |-> wire])

\* C14 happens: the least I64 came back from 80 00 00 00 00 00 00 00
C14_Witness ==
    /\ arg.kind = "scalar" /\ arg.type = "LVI64"
    /\ arg.val = PyLong(TRUE, <<128, 0, 0, 0, 0, 0, 0, 0>>)
    /\ wire = <<128, 0, 0, 0, 0, 0, 0, 0>>
    /\ ret = [kind |-> "value", val |-> arg.val]

\* the number of bytes UTF-8 gives a code point
ByteCount(c) == IF c < 128 THEN 1 ELSE IF c < 2048 THEN 2 ELSE IF c < 65536 THEN 3 ELSE 4

RECURSIVE TextBytes(_)
TextBytes(cs) == IF cs = <<>> THEN 0 ELSE ByteCount(Head(cs)) + TextBytes(Tail(cs))

\* C15: the u32 an encoded String starts with is the number of bytes that
\* follow it, the UTF-8 byte count of the text and not its character
\* count, and the encoding decodes to the text.
C15_StringPrefix ==
    (/\ arg.kind = "scalar" /\ arg.type = "LVString"
     /\ Utf8Ok(arg.val.s) /\ ret.kind # "none")
        => (/\ ret.kind \in {"bytes", "value"}
            /\ Len(wire) >= 4
            /\ BytesValue(SubSeq(wire, 1, 4)) = Len(wire) - 4
            /\ Len(wire) - 4 = TextBytes(arg.val.s)
            /\ ret.kind = "value" => ret.val = arg.val)

\* C15 happens: the two characters e acute and a kanji came back from a
\* String whose prefix is 5
C15_Witness ==
    /\ arg.kind = "scalar" /\ arg.type = "LVString"
    /\ arg.val = PyStr(<<233, 26085>>)
    /\ Len(wire) = 9 /\ SubSeq(wire, 1, 4) = <<0, 0, 0, 5>>
    /\ ret = [kind |-> "value", val |-> arg.val]

(***************************************************************************)
(* Properties of the class registry, under SpecRegistry.                   *)
(***************************************************************************)
\* the class most recently registered under a name: the last class
\* statement executed so far whose qualified name it is
Latest(full_name) ==
    LET named == {i \in 1..Cardinality(defined) : QualifiedName(ClassOrder[i]) = full_name}
    IN  IF named = {} THEN NoClass
        ELSE ClassOrder[CHOOSE i \in named : \A j \in named : j <= i]

\* every name, registered or not
AllNames == LookupNames \cup {QualifiedName(c) : c \in ClassIds}

\* the registry answers every name with the class last registered under it
RegistryLatest ==
    /\ \A full_name \in AllNames : get_lvclass_by_name(registry, full_name) = Latest(full_name)
    /\ ret.kind = "lookup" => ret.cls = Latest(ret.class_name)

\* a step changes the registry only by registering the next class under
\* its qualified name
RegistryStep ==
    \/ registry' = registry
    \/ \E c \in ClassIds :
           /\ c \notin defined /\ defined' = defined \cup {c}
           /\ \A full_name \in AllNames \ {QualifiedName(c)} :
                  get_lvclass_by_name(registry', full_name)
                      = get_lvclass_by_name(registry, full_name)

\* C16: at all times get_lvclass_by_name(n) is the class of the most recent
\* @lvclass registration under the qualified name n, and None (NoClass)
\* when there was none; only a registration changes the registry, and only
\* the entry of its own name: lookups, encodes and decodes leave it as it is.
C16_Registry == []RegistryLatest /\ [][RegistryStep]_vars

\* C16 happens: after EchoMsg and then EchoAlt were registered under
\* Cmd.lvlib:Echo.lvclass and something was encoded, a lookup of that name
\* returned EchoAlt
C16_Witness ==
    /\ {"EchoMsg", "EchoAlt"} \subseteq defined
    /\ arg.kind = "instance"
    /\ ret.kind = "lookup" /\ ret.class_name = QualifiedName("EchoMsg")
    /\ ret.cls = "EchoAlt"

(***************************************************************************)
(* auto_flatten.py: _auto_infer_type wraps a Python value in the LVType    *)
(* objects of the types package and lvflatten serializes the result.       *)
(* A float is the number of halves it holds (v = 5 is 2.5); a dict is its  *)
(* keys, one character each, in insertion order (s) and its values (items).*)
(***************************************************************************)
PyDict(keys, values) == [k |-> "dict", v |-> 0, s |-> keys, items |-> values]

\* an LVType object: its class, the dtype of an LVNumeric, the Python value
\* of a scalar, the names and the named flag of an LVCluster, the
\* element_type of an LVArray and the LVType objects it holds
LVType(cls, dtype, value, names, named, element_type, elems) ==
    [cls |-> cls, dtype |-> dtype, value |-> value, names |-> names,
     named |-> named, element_type |-> element_type, elems |-> elems]

NoLVType == LVType("None", "", PyNone, <<>>, FALSE, "", <<>>)

InferFail(err) == [ok |-> FALSE, err |-> err, lv |-> NoLVType]

InferOk(lv) == [ok |-> TRUE, err |-> "", lv |-> lv]

\* the names elem_0, elem_1, ... as their indices
ElemNames(n) == [i \in 1..n |-> i - 1]

\* the branches of _auto_infer_type for bool, int, float and str
InferScalar(data) ==
    CASE data.k = "bool" -> InferOk(LVType("LVBoolean", "", data, <<>>, FALSE, "", <<>>))
      [] data.k = "int" -> InferOk(LVType("LVNumeric", "int32", data, <<>>, FALSE, "", <<>>))
      [] data.k = "float" -> InferOk(LVType("LVNumeric", "float64", data, <<>>, FALSE, "", <<>>))
      [] data.k = "str" -> InferOk(LVType("LVString", "", data, <<>>, FALSE, "", <<>>))
      [] OTHER -> InferFail("TypeError")

\* the branches for list, tuple and dict once the elements are inferred:
\* the first element that raised raises out of the comprehension
InferContainer(data, elements) ==
    IF \E i \in 1..Len(elements) : ~elements[i].ok
    THEN elements[CHOOSE i \in 1..Len(elements) :
                      ~elements[i].ok /\ \A j \in 1..(i - 1) : elements[j].ok]
    ELSE LET lvs == [i \in 1..Len(elements) |-> elements[i].lv]
             first_type == IF lvs = <<>> THEN "" ELSE lvs[1].cls
         IN  IF data.k = "list" /\ \A i \in 1..Len(lvs) : lvs[i].cls = first_type
             THEN InferOk(LVType("LVArray", "", PyNone, <<>>, FALSE, first_type, lvs))
             ELSE IF data.k \in {"list", "tuple"}
             THEN InferOk(LVType("LVCluster", "", PyNone, ElemNames(Len(lvs)), FALSE, "", lvs))
             ELSE InferOk(LVType("LVCluster", "", PyNone, data.s, TRUE, "", lvs))

RECURSIVE _auto_infer_type(_)
\* the inference as it would be without the checks for empty containers
AutoInferLenient(data) ==
    IF data.k \in {"list", "tuple", "dict"}
    THEN InferContainer(data, [i \in 1..Len(data.items) |-> _auto_infer_type(data.items[i])])
    ELSE InferScalar(data)

_auto_infer_type(data) ==
    IF data.k \in {"list", "tuple", "dict"}
    THEN IF data.items = <<>> THEN InferFail("ValueError")
         ELSE InferContainer(data, [i \in 1..Len(data.items) |->
                                       _auto_infer_type(data.items[i])])
    ELSE InferScalar(data)

RECURSIVE Serialize(_)
\* lv_type.serialize(context) with the default, big-endian, context
Serialize(lv) ==
    CASE lv.cls = "LVBoolean" -> <<IF Truthy(lv.value) THEN 1 ELSE 0>>
      [] lv.cls = "LVNumeric" ->
            IF lv.dtype = "int32" THEN IntBytes(lv.value.v, 4)
            ELSE Float64Bytes(lv.value.v)
      [] lv.cls = "LVString" ->
            U32(Len(Utf8Encode(lv.value.s))) \o Utf8Encode(lv.value.s)
      [] lv.cls = "LVArray" ->
            U32(Len(lv.elems)) \o Concat([i \in 1..Len(lv.elems) |-> Serialize(lv.elems[i])])
      [] lv.cls = "LVCluster" ->
            Concat([i \in 1..Len(lv.elems) |-> Serialize(lv.elems[i])])

\* the scalars inferred from: True, 1, 2.5 and "a"
Leaves == {PyBool(TRUE), PyInt(1), PyFloat(5), PyStr(<<97>>)}

\* the list, the tuple and the dicts of some values; the keys are x and y
Containers(xs) ==
    {PyList(xs), PyTuple(xs), PyDict(SubSeq(<<120, 121>>, 1, Len(xs)), xs),
     PyDict(SubSeq(<<121, 120>>, 1, Len(xs)), xs)}

\* the containers of up to two scalars
Flat == UNION {Containers(xs) : xs \in UNION {[1..n -> Leaves] : n \in 0..2}}

\* what a nested container holds: a scalar or a container of at most one
\* scalar, or the list [1, 2.5]
Inner ==
    Leaves \cup {c \in Flat : Len(c.items) <= 1} \cup {PyList(<<PyInt(1), PyFloat(5)>>)}

Nested2 == UNION {Containers(xs) : xs \in UNION {[1..n -> Inner] : n \in 1..2}}

\* one more level around the nested containers of one element
Nested3 == UNION {Containers(<<c>>) : c \in {d \in Nested2 : Len(d.items) = 1}}

InferValues == Leaves \cup {PyNone} \cup Flat \cup Nested2 \cup Nested3

\* the value of the run
InitInfer ==
    /\ registry = [n \in {} |-> NoClass]
    /\ defined = {}
    /\ \E data \in InferValues : arg = [kind |-> "value", val |-> data]
    /\ wire = <<>>
    /\ ret = [kind |-> "none", err |-> "", lv |-> NoLVType]

\* _auto_infer_type(data)
AutoInfer ==
    /\ ret.kind = "none"
    /\ LET Inferred(r) ==
               IF r.ok THEN [kind |-> "schema", err |-> "", lv |-> r.lv]
               ELSE [kind |-> "error", err |-> r.err, lv |-> NoLVType]
       IN  ret' = Inferred(_auto_infer_type(arg.val))
    /\ UNCHANGED <<registry, defined, arg, wire>>

\* lvflatten(data) of auto_flatten.py: infer, then serialize
AutoFlatten ==
    /\ ret.kind = "none"
    /\ LET Flattened(r) ==
               IF r.ok
               THEN /\ wire' = Serialize(r.lv)
                    /\ ret' = [kind |-> "bytes", err |-> "", lv |-> NoLVType]
               ELSE /\ ret' = [kind |-> "error", err |-> r.err, lv |-> NoLVType]
                    /\ UNCHANGED wire
       IN  Flattened(_auto_infer_type(arg.val))
    /\ UNCHANGED <<registry, defined, arg>>

NextInfer == AutoInfer \/ AutoFlatten

SpecInfer == InitInfer /\ [][NextInfer]_vars

(***************************************************************************)
(* Properties of the inference, under SpecInfer.                           *)
(***************************************************************************)
\* the kind of schema an LVType object stands for
KindOf(lv) ==
    CASE lv.cls = "LVBoolean" -> "Boolean"
      [] lv.cls = "LVNumeric" -> IF lv.dtype = "int32" THEN "Int32" ELSE "Double"
      [] lv.cls = "LVString" -> "String"
      [] lv.cls = "LVArray" -> "Array"
      [] lv.cls = "LVCluster" -> "Cluster"
      [] OTHER -> "None"

\* the schema lv is the one stated for the value data, the elements of a
\* list being homogeneous when their schemas are of one kind
StatedSchema(data, lv) ==
    CASE data.k = "bool" -> KindOf(lv) = "Boolean"
      [] data.k = "int" -> KindOf(lv) = "Int32"
      [] data.k = "float" -> KindOf(lv) = "Double"
      [] data.k = "str" -> KindOf(lv) = "String"
      [] data.k = "list" ->
            IF Cardinality({KindOf(lv.elems[i]) : i \in 1..Len(lv.elems)}) = 1
            THEN KindOf(lv) = "Array"
            ELSE KindOf(lv) = "Cluster" /\ ~lv.named
      [] data.k = "tuple" -> KindOf(lv) = "Cluster" /\ ~lv.named
      [] data.k = "dict" -> KindOf(lv) = "Cluster" /\ lv.named /\ lv.names = data.s
      [] OTHER -> FALSE

\* C17 as stated: a bool is inferred as Boolean, an int as Int32, a float
\* as Double, a str as String, a non-empty list whose elements are
\* inferred to one kind as Array, any other non-empty list and every
\* non-empty tuple as unnamed Cluster, a non-empty dict as named Cluster
\* with its keys in order as field names; each holds the schemas of the
\* elements in order.
C17_InferredKinds ==
    (arg.kind = "value" /\ ret.kind = "schema")
        => (/\ StatedSchema(arg.val, ret.lv)
            /\ Len(ret.lv.elems) = Len(arg.val.items))

\* the same with the exception of lists that mix int and float only
C17_ExceptMixedNumbers ==
    (/\ arg.kind = "value" /\ ret.kind = "schema"
     /\ ~(/\ arg.val.k = "list"
          /\ {arg.val.items[i].k : i \in 1..Len(arg.val.items)} = {"int", "float"}))
        => (/\ StatedSchema(arg.val, ret.lv)
            /\ Len(ret.lv.elems) = Len(arg.val.items))

RECURSIVE HasEmpty(_)
\* the value is, or holds at some depth, an empty list, tuple or dict
HasEmpty(data) ==
    /\ data.k \in {"list", "tuple", "dict"}
    /\ \/ data.items = <<>>
       \/ \E i \in 1..Len(data.items) : HasEmpty(data.items[i])

\* C18: for a value that is or holds, at any depth, an empty list, tuple
\* or dict, _auto_infer_type and lvflatten raise: there is no schema and
\* there are no bytes.
C18_EmptyContainers ==
    (arg.kind = "value" /\ HasEmpty(arg.val) /\ ret.kind # "none")
        => (ret.kind = "error" /\ ret.err = "ValueError"
            /\ ret.lv = NoLVType /\ wire = <<>>)

\* C18 happens: a value holding an empty tuple two levels down was
\* refused
C18_Witness ==
    /\ arg.kind = "value"
    /\ arg.val = PyList(<<PyDict(<<120>>, <<PyTuple(<<>>)>>)>>)
    /\ ret.kind = "error"

(***************************************************************************)
(* The order of the VersionList, under Spec.                               *)
(***************************************************************************)
\* the i-th entry of the VersionList of the encoding
WireVersion(i) ==
    SubSeq(wire, 4 + WireSectionSize + 8 * i - 7, 4 + WireSectionSize + 8 * i)

\* C19 as stated: for an instance whose chain is L0 (root) .. Ln-1 (most
\* derived), the i-th entry of 8 bytes of the VersionList in the encoding
\* is the version of level Li as four big-endian u16: versions are in the
\* order, root first, of the ClusterData of the levels.
C19_VersionsRootFirst ==
    (arg.kind = "instance" /\ ret.kind = "bytes")
        => \A i \in 1..Len(ArgChain) :
               WireVersion(i) = VersionBytes(ClassDef(ArgChain[i]).version)

\* the order the encoder writes: the most derived level first
C19_VersionsDerivedFirst ==
    (arg.kind = "instance" /\ ret.kind = "bytes")
        => \A i \in 1..Len(ArgChain) :
               WireVersion(i)
                   = VersionBytes(ClassDef(ArgChain[Len(ArgChain) + 1 - i]).version)

(***************************************************************************)
(* The ClassName section.  Object dicts are built with class names whose   *)
(* library and class parts range over short strings, the empty string      *)
(* included (obj.get("class_name", "") is the encoder's default), and the  *)
(* bytes are decoded.                                                      *)
(***************************************************************************)
\* the library parts: "", "A", "AF", "Cmd"
LibraryParts == {<<>>, <<65>>, <<65, 70>>, <<67, 109, 100>>}

\* the class parts: "", "X", "BC", "Echo"
ClassParts == {<<>>, <<88>>, <<66, 67>>, <<69, 99, 104, 111>>}

\* the class_name of a dict: 'library:class', or 'class' alone
RawName(library, classname) ==
    IF Len(library) > 0 THEN library \o Colon \o classname ELSE classname

NameDicts ==
    UNION {{LVObjectDict(n, RawName(library, classname),
                         [i \in 1..n |-> VersionAt(i)], data) :
                library \in LibraryParts, classname \in ClassParts,
                data \in [1..n -> LevelData]} :
             n \in 1..MaxLevels}

NextClassName == (\E obj \in NameDicts : Build(obj)) \/ Unflatten

SpecClassName == Init /\ [][NextClassName]_vars

\* the library and class parts of the name of the value encoded
ArgNameParts == SplitClassName(ArgName)

\* the bytes of the Pascal strings of the name: a length byte and the text
PascalBytes ==
    (IF Len(ArgNameParts.library) > 0 THEN 1 + Len(ArgNameParts.library) ELSE 0)
    + 1 + Len(ArgNameParts.classname)

\* the length of the ClassName section of the encoding: what is left of it
\* without NumLevels, the VersionList and the ClusterData
SectionLen ==
    Len(wire) - 4 - 8 * ArgLevels
    - (IF AllEmpty(ArgLevelBytes) THEN 0 ELSE SumLen(ArgLevelBytes))

\* the padding bytes the encoder wrote after the end marker
PaddingWritten == SectionLen - 1 - wire[5]

\* padding_needed of _decode: the padding bytes the decoder skips
PaddingSkipped == _calculate_padding(1 + ReadPascalStrings(wire, 5, <<>>, 0).read)

ClassNameSectionHolds ==
    /\ SectionLen % 4 = 0
    /\ PaddingWritten \in 0..3
    /\ \A i \in 1..PaddingWritten : wire[5 + wire[5] + i] = 0
    /\ wire[5] = PascalBytes + 1
    /\ wire[5 + wire[5]] = 0
    /\ PaddingSkipped = PaddingWritten

\* C20 as stated: in every encoded object with NumLevels > 0 the length of
\* the ClassName section (total-length byte, Pascal strings, end marker and
\* padding) is a multiple of 4, the padding is 0 to 3 zero bytes, the
\* total-length byte is the byte count of the Pascal strings plus the end
\* marker, and the decoder skips as many padding bytes as the encoder
\* wrote.
C20_ClassNameSection ==
    (arg.kind \in {"instance", "dict"} /\ ArgLevels > 0) => ClassNameSectionHolds

\* the same for the names whose class part is not empty
C20_NonEmptyClassPart ==
    (/\ arg.kind \in {"instance", "dict"} /\ ArgLevels > 0
     /\ Len(ArgNameParts.classname) > 0) => ClassNameSectionHolds

(***************************************************************************)
(* Decoding input that ends early: an object dict is encoded, the bytes    *)
(* are cut short and LVObject().parse is called on what is left.           *)
(***************************************************************************)
\* the bytes of the encoding of the value encoded
ArgBytes == EncodeDict(arg.obj).bytes

\* LVObject().build(obj), the first call of the program
BuildFirst(obj) == arg.kind = "none" /\ Build(obj)

\* the input of the decoder is the first n bytes of the encoding
Truncate(n) ==
    /\ arg.kind = "dict" /\ ret.kind = "bytes"
    /\ wire = ArgBytes
    /\ n < Len(wire)
    /\ wire' = SubSeq(wire, 1, n)
    /\ UNCHANGED <<registry, defined, arg, ret>>

NextTruncated ==
    \/ \E obj \in Dicts : BuildFirst(obj)
    \/ \E n \in 0..Len(wire) : Truncate(n)
    \/ Unflatten

SpecTruncated == Init /\ [][NextTruncated]_vars

RECURSIVE LevelPrefixes(_, _, _)
\* the lengths announced by the u32 prefixes of n levels of ClusterData
\* that start at offset pos: -1 for a level whose prefix is not all there
LevelPrefixes(bytes, pos, n) ==
    IF n = 0 THEN <<>>
    ELSE IF pos + 4 > Len(bytes) THEN [i \in 1..n |-> -1]
    ELSE <<BytesValue(SubSeq(bytes, pos + 1, pos + 4))>>
         \o LevelPrefixes(bytes, pos + 4 + BytesValue(SubSeq(bytes, pos + 1, pos + 4)),
                          n - 1)

\* the prefixes of the levels of the input decoded
WirePrefixes == LevelPrefixes(wire, 4 + WireSectionSize + 8 * ArgLevels, ArgLevels)

\* the decoder returned the levels of the input
LevelsDecoded ==
    /\ arg.kind = "dict" /\ ret.kind = "dict" /\ ArgLevels > 0
    /\ "not_found" \in ret.warnings

\* C21 as stated: each level of the ClusterData decoded has exactly the
\* length its u32 prefix announces or, when the input ended before the
\* level could be read, that level and every later level are empty; no
\* level holds fewer bytes than its prefix announced.
C21_LevelsWholeOrEmpty ==
    LevelsDecoded =>
        \A i \in 1..Len(ret.cluster_data) :
            \/ Len(ret.cluster_data[i]) = WirePrefixes[i]
            \/ \A j \in i..Len(ret.cluster_data) : ret.cluster_data[j] = <<>>

\* what the decoder does: a level holds the bytes that were left, at most
\* as many as its prefix announced
C21_LevelsAtMostAnnounced ==
    LevelsDecoded =>
        \A i \in 1..Len(ret.cluster_data) :
            \/ Len(ret.cluster_data[i]) <= WirePrefixes[i]
            \/ (WirePrefixes[i] = -1 /\ ret.cluster_data[i] = <<>>)

(***************************************************************************)
(* Decoding a malformed ClassName section: an object dict is encoded, the  *)
(* section of the bytes is damaged and LVObject().parse is called.         *)
(***************************************************************************)
\* the total-length bytes the input is given: wrong by one, 0 and 255
WrongLengths == {wire[5] - 1, wire[5] + 1, 0, 255} \ {wire[5]}

\* the total-length byte of the input is b
CorruptLength(b) ==
    /\ arg.kind = "dict" /\ ret.kind = "bytes" /\ ArgLevels > 0
    /\ wire = ArgBytes
    /\ b \in WrongLengths
    /\ wire' = SubSeq(wire, 1, 4) \o <<b>> \o SubSeq(wire, 6, Len(wire))
    /\ UNCHANGED <<registry, defined, arg, ret>>

\* the section of the input is its total-length byte, the end marker and
\* the padding, with no Pascal string
DropStrings ==
    /\ arg.kind = "dict" /\ ret.kind = "bytes" /\ ArgLevels > 0
    /\ wire = ArgBytes
    /\ wire' = SubSeq(wire, 1, 4) \o <<1, 0, 0, 0>>
               \o SubSeq(wire, 5 + WireSectionSize, Len(wire))
    /\ UNCHANGED <<registry, defined, arg, ret>>

NextMalformed ==
    \/ \E obj \in Dicts : BuildFirst(obj)
    \/ \E b \in 0..255 : CorruptLength(b)
    \/ DropStrings
    \/ Unflatten

SpecMalformed == Init /\ [][NextMalformed]_vars

\* the Pascal strings of the section of the input, as they are on the wire
WireStrings == ReadPascalStrings(wire, 5, <<>>, 0)

\* the section of the input is malformed: its total-length byte is not the
\* size of its Pascal strings and end marker, or it has no Pascal string
Malformed ==
    /\ arg.kind = "dict" /\ ArgLevels > 0 /\ Len(wire) > 5
    /\ \/ wire[5] # WireStrings.read
       \/ WireStrings.strings = <<>>

\* C22 as stated: decoding an object with NumLevels > 0 whose ClassName
\* section is malformed (the total-length byte disagrees with the size of
\* the Pascal strings and end marker, or the end marker comes before any
\* Pascal string) fails with an error and returns no result.
C22_MalformedSectionFails ==
    (Malformed /\ ret.kind \in {"error", "dict", "instance"}) => ret.kind = "error"

\* what the decoder does: the total-length byte is read and not used, so
\* the result is the one of the undamaged input
C22_LengthIgnored ==
    (/\ Malformed /\ ret.kind \in {"error", "dict", "instance"}
     /\ WireStrings.strings # <<>>)
        => ret = DecodeObject(ArgBytes, registry, defined)

(***************************************************************************)
(* Decoding a registered class from level bytes that do not hold all of    *)
(* its fields: the classes are registered, an object dict named after one  *)
(* of them is encoded with chosen level bytes, and the bytes are decoded.  *)
(***************************************************************************)
\* the bytes of a level: none; a lone 01 and a lone 02; an Int32 7; a
\* Boolean and an array of one element that is missing; a Boolean and an
\* empty array; an empty string or array alone; an empty string and a
\* u16 42
PartialLevels ==
    {<<>>, <<1>>, <<2>>, <<0, 0, 0, 7>>, <<1, 0, 0, 0, 1>>, <<1, 0, 0, 0, 0>>,
     <<0, 0, 0, 0>>, <<0, 0, 0, 0, 0, 42>>}

\* the classes the dicts are named after
PartialClasses == {"Child", "Sample", "EchoAlt"}

PartialDicts ==
    UNION {{LVObjectDict(n, QualifiedName(c), [i \in 1..n |-> VersionAt(i)], data) :
                c \in PartialClasses, data \in [1..n -> PartialLevels]} :
             n \in 1..MaxLevels}

NextPartial ==
    \/ \E c \in ClassIds : Register(c)
    \/ \E obj \in PartialDicts : BuildFirst(obj)
    \/ Unflatten

SpecPartial == Init /\ [][NextPartial]_vars

RECURSIVE DecodableFields(_, _, _)
\* the values of the leading fields of a level that decode from its bytes,
\* up to the first field that fails
DecodableFields(hints, bytes, pos) ==
    IF hints = <<>> THEN <<>>
    ELSE LET Next1(r) ==
                 IF ~r.ok THEN <<>>
                 ELSE <<r.val>> \o DecodableFields(Tail(hints), bytes, r.pos)
         IN  Next1(DeserializeField(Head(hints).type, bytes, pos))

\* the fields of a level of the class returned hold what its bytes give:
\* the leading fields that decode have their values, the failing field and
\* those after it have none, and a failure has been warned of
LevelPopulated(hints, bytes) ==
    LET vals == IF bytes = <<>> THEN <<>> ELSE DecodableFields(hints, bytes, 0)
    IN  /\ \A j \in 1..Len(hints) :
               IF j <= Len(vals)
               THEN /\ hints[j].name \in DOMAIN ret.attrs
                    /\ ret.attrs[hints[j].name] = vals[j]
               ELSE hints[j].name \notin DOMAIN ret.attrs
        /\ (bytes # <<>> /\ Len(vals) < Len(hints)) => "field_failed" \in ret.warnings

\* a dict named after a registered class has been decoded
RegisteredDecoded ==
    /\ arg.kind = "dict" /\ ArgLevels > 0
    /\ ret.kind \in {"error", "dict", "instance"}
    /\ wire = ArgBytes
    /\ ArgName \in DOMAIN registry

\* C23: when a registered class is decoded, a field of a level that fails
\* to decode does not abort the call: the instance is returned, the fields
\* of that level before the failing one hold their decoded values, the
\* failing field and the later fields of the level are not assigned, every
\* other level is decoded normally, and a warning is issued.
C23_BestEffortLevels ==
    RegisteredDecoded =>
        LET chain == InheritanceChain(registry[ArgName], defined)
        IN  /\ ret.kind = "instance"
            /\ ret.cls = registry[ArgName]
            /\ \A i \in 1..Len(chain) :
                   LevelPopulated(ClassDef(chain[i]).hints,
                                  IF i <= ArgLevels THEN arg.obj.cluster_data[i] ELSE <<>>)

\* C23 happens: a Child came back with the id of its first level and the
\* boolean of its second, whose array failed to decode
C23_Witness ==
    /\ RegisteredDecoded
    /\ ArgName = QualifiedName("Child")
    /\ arg.obj.cluster_data = <<<<0, 0, 0, 7>>, <<1, 0, 0, 0, 1>>>>
    /\ ret.kind = "instance"
    /\ ret.attrs = SetAttr(SetAttr(NoAttrs, "id", PyInt(7)), "boolean", PyBool(TRUE))
    /\ "field_failed" \in ret.warnings

(***************************************************************************)
(* Array decoding of arbitrary input: LVArray(elem).parse(data) where data *)
(* is some u32 words followed by up to two more bytes.                     *)
(***************************************************************************)
\* the most u32 words of an input
MaxWords == 4

\* the inputs: words of 0 to 3, then nothing, 05 or 05 06
Streams ==
    {Concat([i \in 1..Len(ws) |-> U32(ws[i])]) \o tail :
        ws \in UNION {[1..n -> 0..3] : n \in 0..MaxWords},
        tail \in {<<>>, <<5>>, <<5, 6>>}}

\* the input and the element type of the run
InitStream ==
    /\ registry = [n \in {} |-> NoClass]
    /\ defined = {}
    /\ \E elem \in ElemTags : arg = [kind |-> "stream", elem |-> elem, val |-> PyNone]
    /\ wire \in Streams
    /\ ret = [kind |-> "bytes", val |-> PyNone, pos |-> 0]

SpecStream == InitStream /\ [][ParseArray]_vars

\* the candidate of rank k matches: the first k words are dimensions of 1
\* or more and k words and their product of elements are the whole input
ExactMatch(elem, bytes, k) ==
    /\ 4 * k <= Len(bytes)
    /\ \A i \in 1..k : Words(bytes, k)[i] >= 1
    /\ 4 * k + Prod(Words(bytes, k)) * IntSize(elem) = Len(bytes)

\* an input with a first word v0 that no candidate rank matches was decoded
FellBack ==
    /\ arg.kind = "stream" /\ ret.kind \in {"array", "error"}
    /\ Len(wire) >= 4
    /\ \A k \in 1..MAX_DIMENSIONS : ~ExactMatch(arg.elem, wire, k)

\* the v0 elements that follow the first word
FlatElements(elem, bytes) ==
    PyList([j \in 1..Words(bytes, 1)[1] |->
               ScalarParse(elem, bytes, 4 + (j - 1) * IntSize(elem)).val])

\* C24 as stated: for fixed-size elements, when no candidate rank gives an
\* exact match, the decoder takes the first u32 v0 for the 1-D count,
\* returns the flat sequence of the v0 elements after it and consumes
\* 4 + v0 * elemSize bytes, however many more words the search read.
C24_FallbackOneDim ==
    FellBack =>
        (/\ ret.kind = "array"
         /\ ret.pos = 4 + Words(wire, 1)[1] * IntSize(arg.elem)
         /\ ret.pos <= Len(wire)
         /\ ret.val = FlatElements(arg.elem, wire))

\* C24 amended: the same when the input holds the v0 elements; when it
\* ends before them the decoder raises.
C24_FallbackWhenPresent ==
    FellBack =>
        IF 4 + Words(wire, 1)[1] * IntSize(arg.elem) <= Len(wire)
        THEN /\ ret.kind = "array"
             /\ ret.pos = 4 + Words(wire, 1)[1] * IntSize(arg.elem)
             /\ ret.val = FlatElements(arg.elem, wire)
        ELSE ret.kind = "error"

\* C24 happens: 2 u8 elements were returned from an input of 4 words, the
\* search having read all of them
C24_Witness ==
    /\ FellBack
    /\ arg.elem = "LVU8"
    /\ wire = U32(2) \o U32(1) \o U32(1) \o U32(1)
    /\ ret.kind = "array" /\ ret.pos = 6
    /\ ret.val = Ints(<<0, 0>>)

(***************************************************************************)
(* Arrays of as many dimensions as the search allows, and of one and two   *)
(* fewer: built and parsed as under SpecArray.                             *)
(***************************************************************************)
\* the shapes of rank r with one or two elements
DeepShapes(r) == {dims \in [1..r -> 1..2] : Prod(dims) <= 2}

\* the array and the element type of the run
InitDeep ==
    /\ registry = [n \in {} |-> NoClass]
    /\ defined = {}
    /\ \E elem \in ElemTags, seed \in Seeds, r \in (MAX_DIMENSIONS - 2)..MAX_DIMENSIONS :
           \E dims \in DeepShapes(r) :
               arg = [kind |-> "array", elem |-> elem, val |-> Nested(elem, seed, dims, 0)]
    /\ wire = <<>>
    /\ ret = [kind |-> "none", val |-> PyNone, pos |-> 0]

SpecDeep == InitDeep /\ [][NextArray]_vars

\* C25 as stated: the search tries the ranks 1 to MAX_DIMENSIONS, the last
\* included: the encoding of an array of rank MAX_DIMENSIONS with
\* fixed-size elements and every dimension at least 1, given as the whole
\* input, is decoded with its shape of MAX_DIMENSIONS dimensions.
C25_RankAtCap ==
    (/\ arg.kind = "array" /\ ret.kind \in {"array", "error"}
     /\ Len(ShapeOf(arg.val)) = MAX_DIMENSIONS)
        => (/\ ret.kind = "array"
            /\ ShapeOf(ret.val) = ShapeOf(arg.val)
            /\ ret.val = arg.val)

\* the same for the ranks below MAX_DIMENSIONS
C25_RankBelowCap ==
    (/\ arg.kind = "array" /\ ret.kind \in {"array", "error"}
     /\ Len(ShapeOf(arg.val)) < MAX_DIMENSIONS)
        => (/\ ret.kind = "array"
            /\ ShapeOf(ret.val) = ShapeOf(arg.val)
            /\ ret.val = arg.val)

(***************************************************************************)
(* One level's fields on their own: serialize_type_hints(type_hints,       *)
(* values) and deserialize_type_hints(type_hints, cluster_bytes) for       *)
(* levels of one or two fields, a and b, whose hints are plain Python      *)
(* types or a Construct and whose values are of any type, or missing.      *)
(***************************************************************************)
\* the hints of a field: str, bool, int, float, list and LVU16
FieldHints == {Hint(k) : k \in {"str", "bool", "int", "float", "list", "LVU16"}}

\* the values of a field: "a", True, 1, 2.5 and []
FieldValues == {PyStr(<<97>>), PyBool(TRUE), PyInt(1), PyFloat(5), PyList(<<>>)}

FieldIds == <<"a", "b">>

\* the type_hints dicts: one or two fields
LevelHints ==
    UNION {{[i \in 1..n |-> Field(FieldIds[i], hs[i])] : hs \in [1..n -> FieldHints]} :
             n \in 1..2}

\* the values dicts of some type_hints: a value for some of the fields
LevelValueDicts(hints) ==
    UNION {[names -> FieldValues] :
             names \in SUBSET {hints[i].name : i \in 1..Len(hints)}}

InitFields ==
    /\ registry = [n \in {} |-> NoClass]
    /\ defined = {}
    /\ \E hints \in LevelHints : \E values \in LevelValueDicts(hints) :
           arg = [kind |-> "level", hints |-> hints, values |-> values]
    /\ wire = <<>>
    /\ ret = [kind |-> "none", attrs |-> NoAttrs, written |-> <<>>, consumed |-> <<>>,
              warnings |-> {}]

\* what the loop of serialize_type_hints writes to the stream for each of
\* the hints, nothing for a hint it passes over
FieldWrites(hints, values) ==
    [i \in 1..Len(hints) |->
        LET h == hints[i]
            value == IF h.name \in DOMAIN values THEN values[h.name]
                     ELSE DefaultValue(h.type)
        IN  IF value.k = "None" THEN <<>> ELSE SerializeField(h.type, value).bytes]

RECURSIVE FieldReads(_, _, _)
\* the bytes the loop of deserialize_type_hints consumes for each of the
\* hints: -1 for the field that fails and for those the loop never reaches
FieldReads(hints, bytes, pos) ==
    IF hints = <<>> THEN <<>>
    ELSE LET Read(r) ==
                 IF ~r.ok THEN [i \in 1..Len(hints) |-> -1]
                 ELSE <<r.pos - pos>> \o FieldReads(Tail(hints), bytes, r.pos)
         IN  Read(DeserializeField(Head(hints).type, bytes, pos))

\* cluster_bytes = serialize_type_hints(type_hints, values)
SerializeLevel ==
    /\ ret.kind = "none"
    /\ LET Written(r) ==
               IF r.ok
               THEN /\ wire' = r.bytes
                    /\ ret' = [ret EXCEPT !.kind = "bytes",
                                          !.written =
                                              IF r.bytes = <<>>
                                              THEN [i \in 1..Len(arg.hints) |-> <<>>]
                                              ELSE FieldWrites(arg.hints, arg.values)]
               ELSE /\ ret' = [ret EXCEPT !.kind = "encode_error"]
                    /\ UNCHANGED wire
       IN  Written(serialize_type_hints(arg.hints, arg.values))
    /\ UNCHANGED <<registry, defined, arg>>

\* deserialize_type_hints(type_hints, cluster_bytes)
DeserializeLevel ==
    /\ ret.kind = "bytes"
    /\ LET Read(r) ==
               [ret EXCEPT !.kind = "fields", !.attrs = r.result,
                           !.warnings = r.warned,
                           !.consumed =
                               IF wire = <<>> THEN [i \in 1..Len(arg.hints) |-> 0]
                               ELSE FieldReads(arg.hints, wire, 0)]
       IN  ret' = Read(deserialize_type_hints(arg.hints, wire))
    /\ UNCHANGED <<registry, defined, arg, wire>>

NextFields == SerializeLevel \/ DeserializeLevel

SpecFields == InitFields /\ [][NextFields]_vars

(***************************************************************************)
(* Properties of the fields of a level, under SpecFields.                  *)
(***************************************************************************)
\* the decoder passes over the hint: it is neither a Construct nor one of
\* str, bool, int and float
Skipped(h) == ~IsConstruct(h) /\ h.kind \notin {"str", "bool", "int", "float"}

\* C26 as stated: for every declared field of a level the decoder consumes
\* as many bytes as the encoder wrote for it, the wire kind following from
\* the declared hint whatever the type of the value, and the encoder
\* writes nothing for a field whose hint the decoder skips.
C26_FieldBytesAgree ==
    (arg.kind = "level" /\ ret.kind = "fields")
        => \A i \in 1..Len(arg.hints) :
               /\ ret.consumed[i] = Len(ret.written[i])
               /\ Skipped(arg.hints[i].type) => ret.written[i] = <<>>

\* the type of the value is the one of the hint
TypeOfHint(h, value) ==
    CASE h.kind = "str" -> value.k = "str"
      [] h.kind = "bool" -> value.k = "bool"
      [] h.kind = "int" -> value.k = "int"
      [] h.kind = "float" -> value.k = "float"
      [] h.kind = "list" -> value.k = "list"
      [] OTHER -> value.k = "int"

\* the same for the levels whose values are all of the type of their hint
C26_AgreeForMatchingTypes ==
    (/\ arg.kind = "level" /\ ret.kind = "fields"
     /\ \A i \in 1..Len(arg.hints) :
            arg.hints[i].name \in DOMAIN arg.values
                => TypeOfHint(arg.hints[i].type, arg.values[arg.hints[i].name]))
        => \A i \in 1..Len(arg.hints) :
               /\ ret.consumed[i] = Len(ret.written[i])
               /\ Skipped(arg.hints[i].type) => ret.written[i] = <<>>

\* the encoding of the default of a field's type: "" and [] are a zero
\* count, False is 00, 0 is as wide as the integer and 0.0 is 8 zero bytes
DefaultBytes(h) ==
    CASE h.kind \in {"str", "LVString", "list", "LVArray"} -> U32(0)
      [] h.kind \in {"bool", "LVBoolean"} -> <<0>>
      [] h.kind = "int" -> Zeros(4)
      [] h.kind = "float" -> Zeros(8)
      [] h.kind \in IntTags -> Zeros(IntSize(h.kind))

\* the level has been encoded: when one of its fields has a value every
\* field is written, in declaration order, a field without a value as the
\* default of its type; when none has a value the bytes are empty
LevelWritten ==
    IF DOMAIN arg.values = {} THEN wire = <<>>
    ELSE /\ wire = Concat(ret.written)
         /\ \A i \in 1..Len(arg.hints) :
                /\ ret.written[i] # <<>>
                /\ arg.hints[i].name \notin DOMAIN arg.values
                       => ret.written[i] = DefaultBytes(arg.hints[i].type)

\* C27 as stated: when one level of an instance is encoded and at least one
\* of its declared fields has a value, every declared field is written, in
\* declaration order, a field without a value as its type's default (0,
\* 0.0, False, empty string or empty array); when none of them has a
\* value the level's bytes are empty.
C27_AllFieldsOrNone ==
    (arg.kind = "level" /\ ret.kind = "bytes") => LevelWritten

\* the same for the levels that declare no field of type list
C27_ExceptListHints ==
    (/\ arg.kind = "level" /\ ret.kind = "bytes"
     /\ \A i \in 1..Len(arg.hints) : arg.hints[i].type.kind # "list")
        => LevelWritten

(***************************************************************************)
(* A registration that runs while another thread looks classes up and      *)
(* decodes.  The decorator is two steps, in the order of its statements:   *)
(* the write of _LVCLASS_REGISTRY[full_name] and then the writes of the    *)
(* __lv_*__ attributes, the last of which is __is_lv_class__.  A class     *)
(* between the two steps is in the registry and not yet in `defined`; the  *)
(* other thread's calls may come before, between or after them.            *)
(***************************************************************************)
\* the class whose decorator has written the registry and not yet the
\* attributes, if any
InDecorator == {c \in ClassIds : c \notin defined /\ QualifiedName(c) \in DOMAIN registry
                                 /\ registry[QualifiedName(c)] = c}

\* _LVCLASS_REGISTRY[full_name] = cls of the decorator of the next class
\* statement, c
DecoratorRegistryWrite(c) ==
    /\ InDecorator = {}
    /\ c \notin defined
    /\ ClassDef(c).base \in defined \cup {NoClass}
    /\ c = ClassOrder[Cardinality(defined) + 1]
    /\ registry' = RegistryPut(registry, QualifiedName(c), c)
    /\ UNCHANGED <<defined, arg, wire, ret>>

\* cls.__lv_library__ = ... to cls.__is_lv_class__ = True of the same
\* decorator
DecoratorAttributes(c) ==
    /\ c \in InDecorator
    /\ defined' = defined \cup {c}
    /\ UNCHANGED <<registry, arg, wire, ret>>

\* the object dicts the other thread decodes: a Test and a Child
ThreadDicts ==
    {LVObjectDict(1, QualifiedName("Test"), <<VersionAt(1)>>, <<<<0, 0, 0, 7>>>>),
     LVObjectDict(2, QualifiedName("Child"), <<VersionAt(1), VersionAt(2)>>,
                  <<<<0, 0, 0, 7>>, <<1, 0, 0, 0, 0>>>>)}

NextConcurrent ==
    \/ \E c \in ClassIds : DecoratorRegistryWrite(c)
    \/ \E c \in ClassIds : DecoratorAttributes(c)
    \/ \E full_name \in LookupNames : Lookup(full_name)
    \/ \E obj \in ThreadDicts : Build(obj)
    \/ Unflatten

SpecConcurrent == Init /\ [][NextConcurrent]_vars

\* C28 as stated: when a registration runs concurrently with a lookup or a
\* decode in another thread, every class obtained from
\* get_lvclass_by_name already carries its LabVIEW metadata, and no
\* decode returns an instance of a registered class with an empty
\* inheritance chain and none of its fields populated.
C28_MetadataBeforeLookup ==
    /\ (ret.kind \in {"lookup", "instance"} /\ ret.cls # NoClass)
           => ret.cls \in defined
    /\ (ret.kind = "instance" /\ arg.kind = "dict" /\ wire = ArgBytes
        /\ arg.obj \in ThreadDicts)
           => ret.attrs # NoAttrs

\* the window is the one between the two steps: outside it every class
\* looked up or decoded carries its metadata
C28_OutsideDecorator ==
    (InDecorator = {} /\ ret.kind \in {"lookup", "instance"} /\ ret.cls # NoClass)
        => ret.cls \in defined

RECURSIVE SchemaOf(_)
\* the wire kind of an LVType object, with that of its elements: the kind
\* of a scalar, Array and the kind of the first element, Cluster and the
\* kinds of the fields
SchemaOf(lv) ==
    CASE KindOf(lv) = "Array" ->
            <<"Array">> \o (IF lv.elems = <<>> THEN <<>> ELSE SchemaOf(lv.elems[1]))
      [] KindOf(lv) = "Cluster" ->
            <<"Cluster">> \o Concat([i \in 1..Len(lv.elems) |-> SchemaOf(lv.elems[i])])
      [] OTHER -> <<KindOf(lv)>>

\* a list that _auto_infer_type classifies as an Array has been inferred
\* or flattened
ListAsArray ==
    /\ arg.kind = "value" /\ arg.val.k = "list"
    /\ ret.kind \in {"schema", "bytes"}
    /\ _auto_infer_type(arg.val).ok
    /\ _auto_infer_type(arg.val).lv.cls = "LVArray"

\* every element has the wire kind of the first and, when the kind is of
\* fixed size, its width, and the bytes are the count and the elements
ElementsAlike(lv) ==
    /\ \A i \in 1..Len(lv.elems) :
           /\ SchemaOf(lv.elems[i]) = SchemaOf(lv.elems[1])
           /\ KindOf(lv.elems[1]) \in {"Boolean", "Int32", "Double"}
                  => Len(Serialize(lv.elems[i])) = Len(Serialize(lv.elems[1]))
    /\ (ret.kind = "bytes" /\ KindOf(lv.elems[1]) \in {"Boolean", "Int32", "Double"})
           => Len(wire) = 4 + Len(lv.elems) * Len(Serialize(lv.elems[1]))

\* C29 as stated: when _auto_infer_type classifies a list as an Array,
\* every element of the array is encoded with the wire kind and the width
\* of the first element; such a list never mixes Int32 elements of 4 bytes
\* with Double elements of 8 bytes.
C29_ArrayElementsAlike ==
    ListAsArray => ElementsAlike(_auto_infer_type(arg.val).lv)

\* the same for the lists whose elements are all of one Python type and,
\* when they are lists, hold elements of one Python type
C29_AlikeForOneType ==
    (/\ ListAsArray
     /\ \A i \in 1..Len(arg.val.items) :
            /\ arg.val.items[i].k = arg.val.items[1].k
            /\ {x.k : x \in {arg.val.items[i].items[j] :
                                j \in 1..Len(arg.val.items[i].items)}}
                   = {x.k : x \in {arg.val.items[1].items[j] :
                                      j \in 1..Len(arg.val.items[1].items)}})
        => ElementsAlike(_auto_infer_type(arg.val).lv)

(***************************************************************************)
(* Names at the limit of the length byte.  One object dict is built whose  *)
(* library and class parts are of lengths around 255, the limit of         *)
(* Int8ub, and the bytes, when there are bytes, are decoded.               *)
(***************************************************************************)
\* the lengths of the library part and of the class part
NameLengths == {0, 1, 2, 125, 126, 127, 250, 251, 252, 253, 254, 255, 256, 257}

\* a text of n letters
TextOf(n, letter) == [i \in 1..n |-> letter]

LongNameDicts ==
    UNION {{LVObjectDict(n, RawName(TextOf(l, 76), TextOf(c, 99)),
                         [i \in 1..n |-> VersionAt(i)], data) :
                l \in NameLengths, c \in NameLengths \ {0},
                data \in [1..n -> LevelData]} :
             n \in 1..MaxLevels}

\* LVObject().build(obj), the one call of the program, with its argument
\* kept: the bytes returned, or the exception raised and no bytes
BuildNamed(obj) ==
    /\ arg.kind = "none"
    /\ arg' = [kind |-> "dict", cls |-> NoClass, attrs |-> NoAttrs, obj |-> obj]
    /\ LET r == EncodeDict(obj)
       IN  IF r.ok
           THEN /\ wire' = r.bytes
                /\ ret' = Result("bytes", EmptyObject, NoClass, NoAttrs, {})
           ELSE /\ ret' = Result("encode_error", EmptyObject, NoClass, NoAttrs, {})
                /\ UNCHANGED wire
    /\ UNCHANGED <<registry, defined>>

\* LVObject().parse of the bytes returned
UnflattenBuilt == ret.kind = "bytes" /\ Unflatten

NextLongNames == (\E obj \in LongNameDicts : BuildNamed(obj)) \/ UnflattenBuilt

SpecLongNames == Init /\ [][NextLongNames]_vars

\* the library or the class part of the name does not fit a length byte,
\* or the Pascal strings and the end marker together do not
NameTooLong ==
    \/ Len(ArgNameParts.library) > 255
    \/ Len(ArgNameParts.classname) > 255
    \/ PascalBytes + 1 > 255

\* C30: if the library or the class name of the most derived class is
\* longer than 255 encoded bytes, or the Pascal strings and the end marker
\* are longer than 255 bytes together, the encoding fails with an error
\* and returns no bytes; a length reduced modulo 256 is never written: the
\* bytes returned hold the total length and the length of each string.
C30_LongNamesRefused ==
    (arg.kind = "dict" /\ ArgLevels > 0) =>
        IF NameTooLong
        THEN ret.kind = "encode_error" /\ wire = <<>>
        ELSE /\ ret.kind # "encode_error"
             /\ wire[5] = PascalBytes + 1
             /\ wire[6] = (IF Len(ArgNameParts.library) > 0
                           THEN Len(ArgNameParts.library)
                           ELSE Len(ArgNameParts.classname))
             /\ Len(ArgNameParts.library) > 0
                    => wire[7 + Len(ArgNameParts.library)]
                           = Len(ArgNameParts.classname)

\* a name whose parts each fit a length byte and whose section does not
\* was refused
C30_Witness ==
    /\ arg.kind = "dict" /\ ArgLevels > 0
    /\ Len(ArgNameParts.library) = 127 /\ Len(ArgNameParts.classname) = 126
    /\ PascalBytes + 1 = 256
    /\ ret.kind = "encode_error" /\ wire = <<>>

====
